---- MODULE Spec2Model ----
(***************************************************************************)
(* Model of the tabular filter-and-diff engine of promo_marketing:         *)
(*   google_sheets.py   : load_sheet_to_df, filter_promo_data              *)
(*   history_tracker.py : get_detailed_row_changes, track_data_changes,    *)
(*                        track_detailed_changes                           *)
(*                                                                         *)
(* Text is modelled as a sequence of one-character strings, so that        *)
(* substring search, joining, date parsing and date formatting are         *)
(* computed and not assumed.  Column names and the geo code are only ever  *)
(* compared as a whole and stay plain strings.  The Cyrillic column names  *)
(* and category names of the source are written in Latin letters:          *)
(*   Game = 'Igra', Provider = 'Provajder', PromoStart = 'Start promo',    *)
(*   PromoEnd = 'Zavershenie promo', Category = 'Kategoriya',              *)
(*   SubcategoryName = 'Nazvanie kategorii', Project = 'Proekt',           *)
(*   Year = 'God', Position = 'Poziciya'; output columns Period =          *)
(*   'Period', Projects = 'Proekty'.                                       *)
(***************************************************************************)
EXTENDS Integers, Sequences, FiniteSets, TLC

VARIABLES
    df,          \* filter: the DataFrame handed to filter_promo_data
    query,       \* filter: the arguments of the last filter_promo_data call
    result,      \* filter: what that call returned or raised
    old_df,      \* diff: first argument of get_detailed_row_changes
    new_df,      \* diff: second argument of get_detailed_row_changes
    changes,     \* diff: the dict returned by the last call
    call,        \* diff: the two frames as they were handed to the last call
    sheet,       \* the grid of cells the Sheets API returns for the range
    now,         \* the clock read by datetime.now()
    changes_log, \* the file changes_log.json of track_data_changes
    detailed_log,\* the file detailed_changes_log.json of track_detailed_changes
    ret,         \* what the last tracker call returned or raised
    local,       \* the local variables of the callers inside track_data_changes
    session_state, \* st.session_state of the browser session
    page,        \* what the last run of app.py rendered in the browser
    mirror_cache,\* the module-level dict mirror_cache of google_sheets.py
    pc           \* which step of the scenario comes next

vars == <<df, query, result, old_df, new_df, changes, call, sheet, now,
          changes_log, detailed_log, ret, local, session_state, page,
          mirror_cache, pc>>

\* the state of the sheet and of the trackers
trackVars == <<sheet, now, changes_log, detailed_log, ret, local>>

\* the state of the web application
appVars == <<session_state, page, mirror_cache>>

-----------------------------------------------------------------------------
(* Values *)

\* a missing cell: None, NaN and pd.NA all answer True to pd.isna
NA == <<"<NA>">>
\* Python's None as an argument value (subcategory=None)
None == <<"<None>">>
\* the empty string ''
EmptyStr == <<>>

isna(v) == v = NA \/ v = None

\* a float that is NaN, or a number
NaN == [nan |-> TRUE, v |-> 0]
Num(n) == [nan |-> FALSE, v |-> n]

\* a history file that does not exist
NoFile == [exists |-> FALSE]
\* no tracker call has returned; no caller is inside track_data_changes
NoRet == [kind |-> "none"]
NoLocal == <<>>

\* st.session_state of a new session: no key is set
NoSession == <<>>

\* nothing has been rendered yet
NoPage == [name |-> "none", button_disabled |-> FALSE, message |-> ""]

\* google_sheets.py:201: mirror_cache = {}
NoCache == <<>>

-----------------------------------------------------------------------------
(* Text helpers *)

DigitChars == <<"0", "1", "2", "3", "4", "5", "6", "7", "8", "9">>
IsDigit(c) == \E i \in 1..10 : DigitChars[i] = c
DigitVal(c) == (CHOOSE i \in 1..10 : DigitChars[i] = c) - 1

UpperChars == <<"A", "B", "C", "D", "E", "F", "G", "H", "I", "J", "K", "L", "M",
                "N", "O", "P", "Q", "R", "S", "T", "U", "V", "W", "X", "Y", "Z">>
LowerChars == <<"a", "b", "c", "d", "e", "f", "g", "h", "i", "j", "k", "l", "m",
                "n", "o", "p", "q", "r", "s", "t", "u", "v", "w", "x", "y", "z">>

\* str.lower, one character
LowerChar(c) ==
    IF \E i \in 1..26 : UpperChars[i] = c
    THEN LowerChars[CHOOSE i \in 1..26 : UpperChars[i] = c]
    ELSE c

\* Series.str.lower
str_lower(s) == [i \in 1..Len(s) |-> LowerChar(s[i])]

\* Series.str.contains(pat) for a pattern without regex metacharacters:
\* pat occurs somewhere in s
str_contains(s, pat) ==
    \E i \in 0..(Len(s) - Len(pat)) : SubSeq(s, i + 1, i + Len(pat)) = pat

\* Series.str.contains(pat + '$'): pat occurs at the end of s
str_contains_at_end(s, pat) ==
    /\ Len(pat) <= Len(s)
    /\ SubSeq(s, Len(s) - Len(pat) + 1, Len(s)) = pat

\* value of a string of digits, most significant first
RECURSIVE DigitsValue(_)
DigitsValue(s) ==
    IF s = <<>> THEN 0
    ELSE 10 * DigitsValue(SubSeq(s, 1, Len(s) - 1)) + DigitVal(s[Len(s)])

AllDigits(s) == s # <<>> /\ \A i \in 1..Len(s) : IsDigit(s[i])

\* pd.to_numeric(..., errors='coerce') of one cell: a missing cell or a text
\* that is not a number becomes NaN.  Numbers are modelled for unsigned
\* decimal integers, the only numeric texts in the inputs of this model.
to_numeric(v) ==
    IF isna(v) THEN NaN
    ELSE IF AllDigits(v) THEN Num(DigitsValue(v))
    ELSE NaN

-----------------------------------------------------------------------------
(* Dates: datetime.strptime / pd.to_datetime with format '%d.%m.%Y', and    *)
(* Series.dt.strftime('%d.%m.%Y')                                           *)

\* what parsing gives: a date, no date (the parse raises), or NaT
NoDate == [ok |-> FALSE, nat |-> FALSE, y |-> 0, m |-> 0, d |-> 0]
NaT == [ok |-> TRUE, nat |-> TRUE, y |-> 0, m |-> 0, d |-> 0]

IsLeap(y) == (y % 4 = 0 /\ y % 100 # 0) \/ y % 400 = 0

DaysInMonth(y, m) ==
    IF m = 2 THEN (IF IsLeap(y) THEN 29 ELSE 28)
    ELSE IF m \in {4, 6, 9, 11} THEN 30
    ELSE 31

DotPositions(s) == {i \in 1..Len(s) : s[i] = "."}

\* the text must be <day>.<month>.<year>: one or two digits, one or two
\* digits, four digits, and name a day of the calendar
strptime(s) ==
    IF isna(s) \/ Cardinality(DotPositions(s)) # 2 THEN NoDate
    ELSE
        LET p1 == CHOOSE i \in DotPositions(s) : \A j \in DotPositions(s) : i <= j
            p2 == CHOOSE i \in DotPositions(s) : \A j \in DotPositions(s) : i >= j
            dd == SubSeq(s, 1, p1 - 1)
            mm == SubSeq(s, p1 + 1, p2 - 1)
            yy == SubSeq(s, p2 + 1, Len(s))
        IN  IF /\ AllDigits(dd) /\ Len(dd) \in {1, 2}
               /\ AllDigits(mm) /\ Len(mm) \in {1, 2}
               /\ AllDigits(yy) /\ Len(yy) = 4
               /\ DigitsValue(yy) >= 1
               /\ DigitsValue(mm) \in 1..12
               /\ DigitsValue(dd) \in 1..DaysInMonth(DigitsValue(yy), DigitsValue(mm))
            THEN [ok |-> TRUE, nat |-> FALSE, y |-> DigitsValue(yy),
                  m |-> DigitsValue(mm), d |-> DigitsValue(dd)]
            ELSE NoDate

\* the texts pandas reads as a missing date instead of parsing them
nat_strings ==
    {<<"N", "a", "T">>, <<"n", "a", "t">>, <<"N", "A", "T">>,
     <<"n", "a", "n">>, <<"N", "a", "N">>, <<"N", "A", "N">>}

\* pd.to_datetime(cell, format='%d.%m.%Y') for one cell: a missing cell and
\* the texts of nat_strings become NaT without an error, any other text is
\* parsed and raises unless it is a date
to_datetime(v) == IF isna(v) \/ v \in nat_strings THEN NaT ELSE strptime(v)

\* the order of two dates is the order of these numbers
DateOrd(t) == t.y * 10000 + t.m * 100 + t.d

\* a == b, a <= b and a >= b of two datetimes: False when one is NaT
date_eq(a, b) == ~a.nat /\ ~b.nat /\ DateOrd(a) = DateOrd(b)
date_le(a, b) == ~a.nat /\ ~b.nat /\ DateOrd(a) <= DateOrd(b)
date_ge(a, b) == ~a.nat /\ ~b.nat /\ DateOrd(a) >= DateOrd(b)

\* n written with exactly w digits, zero padded
RECURSIVE ZeroPad(_, _)
ZeroPad(n, w) ==
    IF w = 0 THEN <<>>
    ELSE Append(ZeroPad(n \div 10, w - 1), DigitChars[(n % 10) + 1])

\* Series.dt.strftime('%d.%m.%Y') for one value: NaT gives a missing cell
strftime(t) ==
    IF t.nat THEN NA
    ELSE ZeroPad(t.d, 2) \o <<".">> \o ZeroPad(t.m, 2) \o <<".">> \o ZeroPad(t.y, 4)

\* a + b of two cells of text: missing when one of them is
str_add(a, b) == IF isna(a) \/ isna(b) THEN NA ELSE a \o b

-----------------------------------------------------------------------------
(* Tables.  A DataFrame is [columns, rows]: the column names in order and    *)
(* the rows in order, each row a function from the column names to cells.    *)
(* The positions 1..Len(rows) play the part of the pandas index labels: the  *)
(* frames derived from df inside filter_promo_data are sequences of such     *)
(* labels.                                                                   *)

Cols(t) == {t.columns[i] : i \in 1..Len(t.columns)}

\* category names, letter by letter
KATEGORIYA == <<"K", "A", "T", "E", "G", "O", "R", "I", "Y", "A">>
NOVINKI == <<"N", "O", "V", "I", "N", "K", "I">>

\* valid_geos with one more code let through
valid_geos_and_XX ==
    {"RU", "KZ", "UA", "CA", "DE", "AU", "BR", "PL", "PT", "CH", "AT", "XX"}

\* google_sheets.py:64
valid_geos == {"RU", "KZ", "UA", "CA", "DE", "AU", "BR", "PL", "PT", "CH", "AT"}

Raise(e) == [status |-> "error", error |-> e, columns |-> <<>>, rows |-> <<>>]
Return(t) == [status |-> "ok", error |-> "", columns |-> t.columns, rows |-> t.rows]

\* df.replace({None: pd.NA, '': pd.NA})
replace_empty(t) ==
    [t EXCEPT !.rows = [i \in 1..Len(t.rows) |->
        [c \in DOMAIN t.rows[i] |->
            IF isna(t.rows[i][c]) \/ t.rows[i][c] = EmptyStr THEN NA
            ELSE t.rows[i][c]]]]

\* subcategory_missing without the check
subcategory_missing_unchecked(category, subcategory) == FALSE

\* google_sheets.py:75-79, the subcategory check
subcategory_missing(category, subcategory) ==
    category = KATEGORIYA /\ subcategory = None

\* google_sheets.py:75-79, the list handed to dropna
required_columns(category) ==
    {"PromoStart", "PromoEnd", "Category", "Project", "Game", "Provider"}
        \cup (IF category = KATEGORIYA THEN {"SubcategoryName"} ELSE {})

\* df.dropna(subset=cols): the labels of idx whose row has no missing cell
\* in cols
dropna(t, idx, cols) ==
    SelectSeq(idx, LAMBDA i : \A c \in cols : ~isna(t.rows[i][c]))

\* year_keep with the year 2024 let through
year_keep_from_2024(v) ==
    /\ ~to_numeric(v).nan
    /\ to_numeric(v).v >= 2024

\* google_sheets.py:87-91 for one cell of the Year column
year_keep(v) ==
    /\ ~to_numeric(v).nan
    /\ to_numeric(v).v > 2024

\* google_sheets.py:85-91
year_filter(t, idx) ==
    IF "Year" \in Cols(t)
    THEN SelectSeq(idx, LAMBDA i : year_keep(t.rows[i]["Year"]))
    ELSE idx

\* google_sheets.py:98-99: pd.to_datetime(column, format='%d.%m.%Y') raises
\* unless every cell of the column parses
dates_parse(t, idx) ==
    \A k \in 1..Len(idx) :
        /\ to_datetime(t.rows[idx[k]]["PromoStart"]).ok
        /\ to_datetime(t.rows[idx[k]]["PromoEnd"]).ok

\* date_mask with the overlap test made strict
date_mask_strict(promo_start, promo_end, query_start, query_end, exact_start_date, exact_end_date) ==
    IF exact_start_date /\ exact_end_date
    THEN date_eq(promo_start, query_start) /\ date_eq(promo_end, query_end)
    ELSE IF exact_start_date /\ ~exact_end_date
    THEN date_eq(promo_start, query_start)
    ELSE IF ~exact_start_date /\ exact_end_date
    THEN date_eq(promo_end, query_end)
    ELSE /\ date_le(promo_start, query_end) /\ ~date_eq(promo_start, query_end)
         /\ date_ge(promo_end, query_start) /\ ~date_eq(promo_end, query_start)

\* google_sheets.py:101-119 for one row: promo_start and promo_end are the
\* row's parsed dates, query_start and query_end the parsed query dates
date_mask(promo_start, promo_end, query_start, query_end, exact_start_date, exact_end_date) ==
    IF exact_start_date /\ exact_end_date
    THEN date_eq(promo_start, query_start) /\ date_eq(promo_end, query_end)
    ELSE IF exact_start_date /\ ~exact_end_date
    THEN date_eq(promo_start, query_start)
    ELSE IF ~exact_start_date /\ exact_end_date
    THEN date_eq(promo_end, query_end)
    ELSE date_le(promo_start, query_end) /\ date_ge(promo_end, query_start)

\* google_sheets.py:121-125 for one row
category_mask(row, category, subcategory) ==
    IF category = KATEGORIYA
    THEN row["Category"] = category /\ row["SubcategoryName"] = subcategory
    ELSE row["Category"] = category

\* google_sheets.py:127-140 for one cell of the Project column; project is
\* the list of queried projects
project_mask(cell, project) ==
    IF project # <<>>
    THEN \/ str_contains(str_lower(cell), <<"a", "l", "l">>)
         \/ \E k \in 1..Len(project) :
                \/ str_contains(cell, project[k])
                \/ str_contains(cell, project[k] \o <<",">>)
                \/ str_contains(cell, <<",", " ">> \o project[k] \o <<",">>)
                \/ str_contains_at_end(cell, <<",", " ">> \o project[k])
    ELSE TRUE

\* google_sheets.py:153-157: the column the position is read from
position_column(category, geo) ==
    IF category = KATEGORIYA \/ category = NOVINKI THEN "Position" ELSE geo

\* google_sheets.py:146-157: the report frame in the order its columns are
\* assigned; Position still holds the raw cell
build_final(t, idx, category, geo) ==
    [columns |-> <<"Game", "Provider", "Period", "Projects", "Category", "Position">>,
     rows |-> [k \in 1..Len(idx) |->
        LET row == t.rows[idx[k]]
        IN  [c \in {"Game", "Provider", "Period", "Projects", "Category", "Position"} |->
                CASE c = "Game" -> row["Game"]
                  [] c = "Provider" -> row["Provider"]
                  [] c = "Period" ->
                        str_add(str_add(strftime(to_datetime(row["PromoStart"])),
                                        <<" ", "-", " ">>),
                                strftime(to_datetime(row["PromoEnd"])))
                  [] c = "Projects" -> row["Project"]
                  [] c = "Category" -> row["Category"]
                  [] c = "Position" -> row[position_column(category, geo)]]]]

\* select_columns that leaves the columns in the order they were assigned
select_columns_as_assigned(t, cols) == t

\* google_sheets.py:160: final_df[[...]], the columns picked in the given order
select_columns(t, cols) ==
    [columns |-> cols,
     rows |-> [k \in 1..Len(t.rows) |->
                [c \in {cols[j] : j \in 1..Len(cols)} |-> t.rows[k][c]]]]

\* google_sheets.py:163
position_to_numeric(t) ==
    [t EXCEPT !.rows = [k \in 1..Len(t.rows) |->
        [t.rows[k] EXCEPT !["Position"] = to_numeric(t.rows[k]["Position"])]]]

\* r put into the ascending sequence s behind every row that is not greater
RECURSIVE InsertByPosition(_, _)
InsertByPosition(s, r) ==
    IF s = <<>> THEN <<r>>
    ELSE IF s[Len(s)]["Position"].v <= r["Position"].v THEN Append(s, r)
    ELSE Append(InsertByPosition(SubSeq(s, 1, Len(s) - 1), r), s[Len(s)])

RECURSIVE SortByPosition(_)
SortByPosition(s) ==
    IF s = <<>> THEN <<>>
    ELSE InsertByPosition(SortByPosition(SubSeq(s, 1, Len(s) - 1)), s[Len(s)])

\* sort_values with na_position='first'
sort_values_na_first(t) ==
    [t EXCEPT !.rows =
        SelectSeq(t.rows, LAMBDA r : r["Position"].nan)
            \o SortByPosition(SelectSeq(t.rows, LAMBDA r : ~r["Position"].nan))]

\* google_sheets.py:164-167: sort_values('Position') with the defaults
\* (ascending, na_position='last') and reset_index: the rows with a number
\* in ascending order, then the rows with NaN in their former order
sort_values(t) ==
    [t EXCEPT !.rows =
        SortByPosition(SelectSeq(t.rows, LAMBDA r : ~r["Position"].nan))
            \o SelectSeq(t.rows, LAMBDA r : r["Position"].nan)]

\* google_sheets.py:45-169
filter_promo_data(t, start_date, end_date, category, project, geo, subcategory, exact_start_date, exact_end_date) ==
    IF geo \notin valid_geos THEN Raise("ValueError: geo")
    ELSE IF subcategory_missing(category, subcategory)
    THEN Raise("ValueError: subcategory")
    ELSE IF ~(required_columns(category) \subseteq Cols(t))
    THEN Raise("KeyError")
    ELSE
    LET t1 == replace_empty(t)
        idx1 == dropna(t1, [i \in 1..Len(t1.rows) |-> i], required_columns(category))
        idx2 == year_filter(t1, idx1)
        query_start == strptime(start_date)
        query_end == strptime(end_date)
    IN  IF ~query_start.ok \/ ~query_end.ok THEN Raise("ValueError: query date")
        ELSE IF ~dates_parse(t1, idx2) THEN Raise("ValueError: promo date")
        ELSE
        LET idx3 == SelectSeq(idx2, LAMBDA i :
                        /\ date_mask(to_datetime(t1.rows[i]["PromoStart"]),
                                     to_datetime(t1.rows[i]["PromoEnd"]),
                                     query_start, query_end,
                                     exact_start_date, exact_end_date)
                        /\ category_mask(t1.rows[i], category, subcategory)
                        /\ project_mask(t1.rows[i]["Project"], project))
        IN  IF position_column(category, geo) \notin Cols(t1) THEN Raise("KeyError")
            ELSE Return(sort_values(position_to_numeric(
                    select_columns(build_final(t1, idx3, category, geo),
                        <<"Position", "Game", "Provider", "Period", "Projects",
                          "Category">>))))

-----------------------------------------------------------------------------
(* history_tracker.py: get_detailed_row_changes                              *)

\* str(n) for a row label
RECURSIVE IntToStr(_)
IntToStr(n) ==
    IF n < 10 THEN <<DigitChars[n + 1]>>
    ELSE Append(IntToStr(n \div 10), DigitChars[(n % 10) + 1])

\* astype(str) of one cell: a missing cell is written 'nan'
astype_str(v) == IF isna(v) THEN <<"n", "a", "n">> ELSE v

\* sep.join(parts)
RECURSIVE str_join(_, _)
str_join(sep, parts) ==
    IF parts = <<>> THEN <<>>
    ELSE IF Len(parts) = 1 THEN parts[1]
    ELSE str_join(sep, SubSeq(parts, 1, Len(parts) - 1)) \o sep \o parts[Len(parts)]

\* empty that looks at the columns only
empty_without_columns(t) == Len(t.columns) = 0

\* DataFrame.empty: no rows or no columns
empty(t) == Len(t.rows) = 0 \/ Len(t.columns) = 0

\* t[name] = values: an existing column is overwritten in place, a new one
\* is appended
set_column(t, name, values) ==
    [columns |-> IF name \in Cols(t) THEN t.columns ELSE Append(t.columns, name),
     rows |-> [i \in 1..Len(t.rows) |->
        [c \in Cols(t) \cup {name} |->
            IF c = name THEN values[i] ELSE t.rows[i][c]]]]

\* history_tracker.py:382-385
natural_key_columns(old, new) ==
    SelectSeq(<<"Game", "Provider", "PromoStart", "PromoEnd">>,
              LAMBDA c : c \in Cols(old) /\ c \in Cols(new))

\* history_tracker.py:387-391: the key columns used, after the fallback.
\* The row labels of a frame are 0, 1, ...; the _row_key cell is modelled by
\* the decimal text of the label, which compares and prints as the label does
key_columns(old, new) ==
    IF natural_key_columns(old, new) = <<>> THEN <<"_row_key">>
    ELSE natural_key_columns(old, new)

with_row_key(t, old, new) ==
    IF natural_key_columns(old, new) = <<>>
    THEN set_column(t, "_row_key", [i \in 1..Len(t.rows) |-> IntToStr(i - 1)])
    ELSE t

\* history_tracker.py:394-395 for one row
composite_key(row, keycols) ==
    str_join(<<"|", "|">>, [k \in 1..Len(keycols) |-> astype_str(row[keycols[k]])])

\* history_tracker.py:387-395: the frame t (old_df or new_df) as the call
\* leaves it, with the service columns added
with_keys(t, old, new) ==
    LET t1 == with_row_key(t, old, new)
    IN  set_column(t1, "_composite_key",
            [i \in 1..Len(t1.rows) |-> composite_key(t1.rows[i], key_columns(old, new))])

\* set(df['_composite_key'])
key_set(t) == {t.rows[i]["_composite_key"] : i \in 1..Len(t.rows)}

\* df[df['_composite_key'] == key].iloc[0]
first_row(t, key) ==
    t.rows[CHOOSE i \in 1..Len(t.rows) :
        /\ t.rows[i]["_composite_key"] = key
        /\ \A j \in 1..(i - 1) : t.rows[j]["_composite_key"] # key]

\* row.to_dict() followed by del row_data['_composite_key']
row_data(row) == [c \in (DOMAIN row) \ {"_composite_key"} |-> row[c]]

\* added_keys without the subtraction of the old keys
added_keys_all_new(old, new) == key_set(with_keys(new, old, new))

\* history_tracker.py:401, 411, 421
added_keys(old, new) == key_set(with_keys(new, old, new)) \ key_set(with_keys(old, old, new))
deleted_keys(old, new) == key_set(with_keys(old, old, new)) \ key_set(with_keys(new, old, new))
common_keys(old, new) == key_set(with_keys(old, old, new)) \cap key_set(with_keys(new, old, new))

\* str(v) if not pd.isna(v) else None
str_or_none(v) == IF isna(v) THEN None ELSE v

\* cell_differs that takes a missing cell for unchanged
cell_differs_unless_missing(old_value, new_value) ==
    ~isna(old_value) /\ ~isna(new_value) /\ old_value # new_value

\* history_tracker.py:435-437: is the cell reported as changed
cell_differs(old_value, new_value) ==
    IF isna(old_value) /\ isna(new_value) THEN FALSE
    ELSE isna(old_value) \/ isna(new_value) \/ old_value # new_value

\* cell_changes that compares the raw values, so that a missing cell differs
\* from a missing cell
cell_changes_null_unequal(old_cols, old_row, new_row) ==
    LET value(row, c) == IF c \in DOMAIN row THEN row[c] ELSE None
        cols == SelectSeq(old_cols, LAMBDA c :
                    /\ c # "_composite_key"
                    /\ \/ isna(value(old_row, c))
                       \/ isna(value(new_row, c))
                       \/ value(old_row, c) # value(new_row, c))
    IN  [k \in 1..Len(cols) |->
            [column |-> cols[k],
             old_value |-> str_or_none(value(old_row, cols[k])),
             new_value |-> str_or_none(value(new_row, cols[k]))]]

\* history_tracker.py:426-442: the cell changes of one pair of rows, in the
\* order of old_df.columns; a column new_row lacks reads as None
cell_changes(old_cols, old_row, new_row) ==
    LET value(row, c) == IF c \in DOMAIN row THEN row[c] ELSE None
        cols == SelectSeq(old_cols, LAMBDA c :
                    /\ c # "_composite_key"
                    /\ cell_differs(value(old_row, c), value(new_row, c)))
    IN  [k \in 1..Len(cols) |->
            [column |-> cols[k],
             old_value |-> str_or_none(value(old_row, cols[k])),
             new_value |-> str_or_none(value(new_row, cols[k]))]]

\* the enumerations of a set: Python iterates a set in an order the program
\* does not control
Orders(S) ==
    {s \in [1..Cardinality(S) -> S] : \A i, j \in 1..Cardinality(S) : i # j => s[i] # s[j]}

\* SumLen that counts the rows instead of their cell changes
SumLen_rows(rows) == Len(rows)

\* history_tracker.py:456: sum(len(row['changes']) for row in modified_rows)
RECURSIVE SumLen(_)
SumLen(rows) ==
    IF rows = <<>> THEN 0
    ELSE SumLen(SubSeq(rows, 1, Len(rows) - 1)) + Len(rows[Len(rows)].changes)

NoChanges ==
    [added_rows |-> <<>>, deleted_rows |-> <<>>, modified_rows |-> <<>>,
     column_changes |-> <<>>,
     summary |-> [total_changes |-> 0, rows_added |-> 0, rows_deleted |-> 0,
                  rows_modified |-> 0, cells_changed |-> 0]]

\* history_tracker.py:336-463.  added_order, deleted_order and common_order
\* are the orders in which the three key sets are iterated
get_detailed_row_changes(old, new, added_order, deleted_order, common_order) ==
    IF empty(old) /\ empty(new) THEN NoChanges
    ELSE IF empty(old)
    THEN [NoChanges EXCEPT !.added_rows = new.rows,
                           !.summary.rows_added = Len(new.rows),
                           !.summary.total_changes = Len(new.rows)]
    ELSE IF empty(new)
    THEN [NoChanges EXCEPT !.deleted_rows = old.rows,
                           !.summary.rows_deleted = Len(old.rows),
                           !.summary.total_changes = Len(old.rows)]
    ELSE
    LET old_k == with_keys(old, old, new)
        new_k == with_keys(new, old, new)
        added == [k \in 1..Len(added_order) |->
                    [row_key |-> added_order[k],
                     data |-> row_data(first_row(new_k, added_order[k]))]]
        deleted == [k \in 1..Len(deleted_order) |->
                    [row_key |-> deleted_order[k],
                     data |-> row_data(first_row(old_k, deleted_order[k]))]]
        changed == SelectSeq(common_order, LAMBDA key :
                    cell_changes(old_k.columns, first_row(old_k, key),
                                 first_row(new_k, key)) # <<>>)
        modified == [k \in 1..Len(changed) |->
                    LET old_row == first_row(old_k, changed[k])
                        new_row == first_row(new_k, changed[k])
                    IN  [row_key |-> changed[k],
                         changes |-> cell_changes(old_k.columns, old_row, new_row),
                         old_data |-> [c \in (DOMAIN old_row) \ {"_composite_key"} |->
                                        str_or_none(old_row[c])],
                         new_data |-> [c \in (DOMAIN new_row) \ {"_composite_key"} |->
                                        str_or_none(new_row[c])]]]
    IN  [added_rows |-> added, deleted_rows |-> deleted, modified_rows |-> modified,
         column_changes |-> <<>>,
         summary |-> [total_changes |-> Len(added) + Len(deleted) + Len(modified),
                      rows_added |-> Len(added),
                      rows_deleted |-> Len(deleted),
                      rows_modified |-> Len(modified),
                      cells_changed |-> SumLen(modified)]]

\* the frames after the call: on the key-matching path both arguments have
\* gained the service columns, on the short-circuit paths they are untouched
frame_after(t, old, new) ==
    IF empty(old) \/ empty(new) THEN t ELSE with_keys(t, old, new)

-----------------------------------------------------------------------------
(* google_sheets.py: load_sheet_to_df                                        *)

\* the length of the longest row of a list of rows
RECURSIVE MaxRowLen(_)
MaxRowLen(data) ==
    IF data = <<>> THEN 0
    ELSE LET m == MaxRowLen(Tail(data))
         IN  IF Len(Head(data)) > m THEN Len(Head(data)) ELSE m

\* pd.DataFrame(data, columns=header) for a list of lists: the rows are
\* padded with None to the length of the longest row, and the number of
\* columns this gives must be the number of names in header; an empty list
\* gives a frame without rows
DataFrame(data, header) ==
    IF data # <<>> /\ MaxRowLen(data) # Len(header)
    THEN Raise("ValueError: columns passed")
    ELSE Return([columns |-> header,
                 rows |-> [i \in 1..Len(data) |->
                    [c \in {header[j] : j \in 1..Len(header)} |->
                        LET j == CHOOSE j \in 1..Len(header) : header[j] = c
                        IN  IF j <= Len(data[i]) THEN data[i][j] ELSE None]]])

\* google_sheets.py:38-43: values is the grid of the API's answer, [] when
\* the answer has no 'values'
load_sheet_to_df(values) ==
    IF values = <<>> THEN Raise("ValueError: no data")
    ELSE DataFrame(Tail(values), Head(values))

-----------------------------------------------------------------------------
(* history_tracker.py: the content hash of track_data_changes                *)

\* fillna that writes the text nan into a missing cell
fillna_as_nan(t) ==
    [columns |-> t.columns,
     rows |-> [i \in 1..Len(t.rows) |->
        [c \in DOMAIN t.rows[i] |->
            IF isna(t.rows[i][c]) THEN <<"n", "a", "n">> ELSE t.rows[i][c]]]]

\* history_tracker.py:91: replace({None: '', pd.NA: ''}).fillna('')
fillna(t) ==
    [columns |-> t.columns,
     rows |-> [i \in 1..Len(t.rows) |->
        [c \in DOMAIN t.rows[i] |->
            IF isna(t.rows[i][c]) THEN EmptyStr ELSE t.rows[i][c]]]]

\* the characters that make the csv writer quote a field
csv_special == {",", "\"", "\n", "\r"}

\* a field with every quote character doubled
RECURSIVE csv_double_quotes(_)
csv_double_quotes(v) ==
    IF v = <<>> THEN <<>>
    ELSE (IF Head(v) = "\"" THEN <<"\"", "\"">> ELSE <<Head(v)>>)
         \o csv_double_quotes(Tail(v))

\* one field as the csv writer prints it (QUOTE_MINIMAL); a missing cell is
\* printed as the empty field (na_rep='')
csv_field(v) ==
    IF isna(v) THEN <<>>
    ELSE IF \E i \in 1..Len(v) : v[i] \in csv_special
    THEN <<"\"">> \o csv_double_quotes(v) \o <<"\"">>
    ELSE v

\* one line: the fields joined by commas; a line of one empty field is
\* printed as two quote characters
csv_line(fields) ==
    (IF Len(fields) = 1 /\ csv_field(fields[1]) = <<>>
     THEN <<"\"", "\"">>
     ELSE str_join(<<",">>, [k \in 1..Len(fields) |-> csv_field(fields[k])]))
    \o <<"\n">>

RECURSIVE csv_lines(_, _)
csv_lines(columns, rows) ==
    IF rows = <<>> THEN <<>>
    ELSE csv_line([k \in 1..Len(columns) |-> Head(rows)[columns[k]]])
         \o csv_lines(columns, Tail(rows))

\* history_tracker.py:94: DataFrame.to_csv(index=False): the header line and
\* one line per row, in row order.  A column name is written as one
\* character of the text
to_csv(t) ==
    csv_line([k \in 1..Len(t.columns) |-> <<t.columns[k]>>]) \o csv_lines(t.columns, t.rows)

\* history_tracker.py:95: hashlib.md5(content).hexdigest().  The digest is
\* modelled as free of collisions: it is the text it was computed from,
\* marked as a digest
md5_hexdigest(content) == <<"md5:">> \o content

\* history_tracker.py:91-95: the hash of the frame just loaded
content_hash(t) == md5_hexdigest(to_csv(fillna(t)))

-----------------------------------------------------------------------------
(* history_tracker.py: track_data_changes                                    *)

\* py_last that keeps the first n entries
py_last_keeps_first(s, n) == IF Len(s) <= n THEN s ELSE SubSeq(s, 1, n)

\* s[-n:] of a list (history_tracker.py:146, 536)
py_last(s, n) ==
    IF n = 0 \/ Len(s) <= n THEN s ELSE SubSeq(s, Len(s) - n + 1, Len(s))

\* history_tracker.py:86-98: the frame is loaded and hashed; a load that
\* raises is caught
load_current(values) ==
    LET r == load_sheet_to_df(values)
    IN  IF r.status = "error"
        THEN [ok |-> FALSE, error |-> r.error]
        ELSE [ok |-> TRUE,
              current_hash |-> content_hash([columns |-> r.columns, rows |-> r.rows]),
              rows_count |-> Len(r.rows),
              columns_count |-> Len(r.columns)]

\* history_tracker.py:100-108: the dict returned when the load raised
load_failed(ts, e) ==
    [timestamp |-> ts, has_changes |-> FALSE, error |-> e,
     current_hash |-> None, previous_hash |-> None]

\* history_tracker.py:110-122: the history read from the file, or the fresh
\* {'changes': []}; a key the dict lacks reads as None
read_history(file) ==
    IF file = NoFile
    THEN [changes |-> <<>>, last_hash |-> None, last_update |-> None]
    ELSE [changes |-> file.changes, last_hash |-> file.last_hash,
          last_update |-> file.last_update]

\* hash_differs that finds a change in every load
hash_differs_always(current_hash, last_hash) == TRUE

\* history_tracker.py:125: has_changes = current_hash != last_hash
hash_differs(current_hash, last_hash) == current_hash # last_hash

\* change_info that never names a previous hash
coarse_info_without_previous(ts, cur, history) ==
    [timestamp |-> ts,
     has_changes |-> hash_differs(cur.current_hash, history.last_hash),
     current_hash |-> cur.current_hash,
     previous_hash |-> None,
     rows_count |-> cur.rows_count,
     columns_count |-> cur.columns_count]

\* history_tracker.py:128-135: change_info
coarse_info(ts, cur, history) ==
    [timestamp |-> ts,
     has_changes |-> hash_differs(cur.current_hash, history.last_hash),
     current_hash |-> cur.current_hash,
     previous_hash |-> history.last_hash,
     rows_count |-> cur.rows_count,
     columns_count |-> cur.columns_count]

\* updated_history that starts the list of changes anew
updated_history_anew(history, info) ==
    [changes |-> <<info>>, last_hash |-> info.current_hash,
     last_update |-> info.timestamp]

\* history_tracker.py:141-146: the history with the entry appended and cut
\* to its last 100 entries
updated_history(history, info) ==
    [changes |-> py_last(Append(history.changes, info), 100),
     last_hash |-> info.current_hash,
     last_update |-> info.timestamp]

\* history_tracker.py:149-151: json.dump(history, f)
written(history) ==
    [exists |-> TRUE, changes |-> history.changes,
     last_hash |-> history.last_hash, last_update |-> history.last_update]

\* history_tracker.py:138-156: the file after the call
coarse_file_after(file, history, info) ==
    IF info.has_changes THEN written(updated_history(history, info)) ELSE file

-----------------------------------------------------------------------------
(* history_tracker.py: track_detailed_changes                                *)

\* last_data of a history that has none
NoData == [none |-> TRUE, columns |-> <<>>, rows |-> <<>>]

\* history_tracker.py:529: DataFrame.to_dict('records'), a list with one
\* dict per row, its keys in column order; a frame without rows gives [],
\* which keeps nothing of the columns
to_dict_records(t) ==
    IF Len(t.rows) = 0 THEN [none |-> FALSE, columns |-> <<>>, rows |-> <<>>]
    ELSE [none |-> FALSE, columns |-> t.columns, rows |-> t.rows]

\* history_tracker.py:491-495: the history read from the file, or the fresh
\* {'changes': [], 'last_data': None}
read_detailed_history(file) ==
    IF file = NoFile THEN [changes |-> <<>>, last_data |-> NoData]
    ELSE [changes |-> file.changes, last_data |-> file.last_data]

\* history_tracker.py:499: if history.get('last_data'): None and [] are
\* both false
has_last_data(history) ==
    ~history.last_data.none /\ Len(history.last_data.rows) > 0

\* history_tracker.py:501: pd.DataFrame(history['last_data'])
previous_frame(history) ==
    [columns |-> history.last_data.columns, rows |-> history.last_data.rows]

\* history_tracker.py:507-514: change_info of a first run
first_run_info(ts, current) ==
    [timestamp |-> ts, is_first_run |-> TRUE, has_changes |-> FALSE,
     rows_count |-> Len(current.rows),
     columns_count |-> Len(current.columns),
     detailed_changes |-> None]

\* history_tracker.py:519-526: change_info after the comparison; current is
\* the frame as the comparison left it
compared_info(ts, current, detailed_changes) ==
    [timestamp |-> ts, is_first_run |-> FALSE,
     has_changes |-> detailed_changes.summary.total_changes > 0,
     rows_count |-> Len(current.rows),
     columns_count |-> Len(current.columns),
     detailed_changes |-> detailed_changes]

\* history_tracker.py:529-536: the history with last_data replaced and the
\* entry appended and cut to its last 50 entries
updated_detailed_history(history, info, current) ==
    [changes |-> py_last(Append(history.changes, info), 50),
     last_data |-> to_dict_records(current)]

\* history_tracker.py:532-540: the file after the call
detailed_file_after(file, history, info, current) ==
    IF info.has_changes \/ info.is_first_run
    THEN LET h == updated_detailed_history(history, info, current)
         IN  [exists |-> TRUE, changes |-> h.changes, last_data |-> h.last_data]
    ELSE file

\* history_tracker.py:484-488: the frame loaded and cleaned
detailed_current(values) ==
    LET r == load_sheet_to_df(values)
    IN  fillna([columns |-> r.columns, rows |-> r.rows])

-----------------------------------------------------------------------------
(* history_tracker.py: get_changes_history                                   *)

\* history_tracker.py:555-564
get_changes_history(file, limit) ==
    IF file = NoFile THEN <<>>
    ELSE IF file.changes # <<>> THEN py_last(file.changes, limit)
    ELSE <<>>

-----------------------------------------------------------------------------
(* history_tracker.py: export_changes_to_excel                               *)

\* history_tracker.py:600-608: one record per cell change of the modified
\* rows, in their order
RECURSIVE modified_data(_)
modified_data(rows) ==
    IF rows = <<>> THEN <<>>
    ELSE [k \in 1..Len(Head(rows).changes) |->
            [row_key |-> Head(rows).row_key,
             column |-> Head(rows).changes[k].column,
             old_value |-> Head(rows).changes[k].old_value,
             new_value |-> Head(rows).changes[k].new_value]]
         \o modified_data(Tail(rows))

\* history_tracker.py:590, 595: [row['data'] for row in rows]; an entry
\* without the key 'data' raises KeyError
data_of(rows) ==
    IF \E k \in 1..Len(rows) : "data" \notin DOMAIN rows[k]
    THEN [status |-> "error", error |-> "KeyError: data", data |-> <<>>]
    ELSE [status |-> "ok", error |-> "",
          data |-> [k \in 1..Len(rows) |-> rows[k].data]]

\* history_tracker.py:583-612 for a change_info whose detailed_changes is
\* the diff given (with detailed_changes None nothing is written): the rows
\* of the sheets written to the workbook, or the error raised
export_changes_to_excel(detailed_changes) ==
    LET added == data_of(detailed_changes.added_rows)
        deleted == data_of(detailed_changes.deleted_rows)
    IN  IF added.status = "error"
        THEN [status |-> "error", error |-> added.error, sheets |-> <<>>]
        ELSE IF deleted.status = "error"
        THEN [status |-> "error", error |-> deleted.error, sheets |-> <<>>]
        ELSE [status |-> "ok", error |-> "",
              sheets |-> <<<<detailed_changes.summary>>, added.data, deleted.data,
                           modified_data(detailed_changes.modified_rows)>>]

-----------------------------------------------------------------------------
(* Inputs of the filter scenario *)

TOP == <<"T", "O", "P">>
D0101 == <<"0", "1", ".", "0", "1", ".", "2", "0", "2", "5">>
D0501 == <<"0", "5", ".", "0", "1", ".", "2", "0", "2", "5">>
D1001 == <<"1", "0", ".", "0", "1", ".", "2", "0", "2", "5">>
D2001 == <<"2", "0", ".", "0", "1", ".", "2", "0", "2", "5">>
SLOTS == <<"S", "l", "o", "t", "s">>
ROX == <<"R", "O", "X">>
RO == <<"R", "O">>

\* the most rows a table handed to filter_promo_data has
MaxRows == 3

FilterColumns ==
    <<"Game", "Provider", "PromoStart", "PromoEnd", "Category", "SubcategoryName",
      "Project", "Year", "Position", "RU">>

\* the rows the tables are made of: a plain TOP row; a row of the tag All
\* without a position; a KATEGORIYA row whose literal Position is not a
\* number; then rows that fail one requirement each: no Game, Year 2024
\* (with an unpadded start date), Year not a number, a start date that is
\* no day of the calendar, the start date NaT
RowPool ==
    {[Game |-> <<"A">>, Provider |-> <<"P">>, PromoStart |-> <<"0", "1", ".", "0", "1", ".", "2", "0", "2", "5">>, PromoEnd |-> <<"1", "0", ".", "0", "1", ".", "2", "0", "2", "5">>,
     Category |-> TOP, SubcategoryName |-> EmptyStr, Project |-> <<"R", "O", "X", ",", " ", "S", "O", "L">>,
     Year |-> <<"2", "0", "2", "5">>, Position |-> <<"2">>, RU |-> <<"3">>],
    [Game |-> <<"B">>, Provider |-> <<"P">>, PromoStart |-> <<"0", "5", ".", "0", "1", ".", "2", "0", "2", "5">>, PromoEnd |-> <<"2", "0", ".", "0", "1", ".", "2", "0", "2", "5">>,
     Category |-> TOP, SubcategoryName |-> None, Project |-> <<"A", "l", "l">>,
     Year |-> <<"2", "0", "2", "6">>, Position |-> EmptyStr, RU |-> None],
    [Game |-> <<"D">>, Provider |-> <<"P">>, PromoStart |-> <<"0", "1", ".", "0", "1", ".", "2", "0", "2", "5">>, PromoEnd |-> <<"1", "0", ".", "0", "1", ".", "2", "0", "2", "5">>,
     Category |-> KATEGORIYA, SubcategoryName |-> <<"S", "l", "o", "t", "s">>, Project |-> <<"S", "O", "L">>,
     Year |-> <<"2", "0", "2", "5">>, Position |-> <<"x">>, RU |-> <<"2">>],
    [Game |-> EmptyStr, Provider |-> <<"P">>, PromoStart |-> <<"0", "1", ".", "0", "1", ".", "2", "0", "2", "5">>, PromoEnd |-> <<"1", "0", ".", "0", "1", ".", "2", "0", "2", "5">>,
     Category |-> TOP, SubcategoryName |-> EmptyStr, Project |-> <<"R", "O", "X">>,
     Year |-> <<"2", "0", "2", "5">>, Position |-> <<"1">>, RU |-> <<"1">>],
    [Game |-> <<"F">>, Provider |-> <<"P">>, PromoStart |-> <<"1", ".", "1", ".", "2", "0", "2", "5">>, PromoEnd |-> <<"1", "0", ".", "0", "1", ".", "2", "0", "2", "5">>,
     Category |-> TOP, SubcategoryName |-> EmptyStr, Project |-> <<"R", "O", "X">>,
     Year |-> <<"2", "0", "2", "4">>, Position |-> <<"1">>, RU |-> <<"1">>],
    [Game |-> <<"G">>, Provider |-> <<"P">>, PromoStart |-> <<"0", "1", ".", "0", "1", ".", "2", "0", "2", "5">>, PromoEnd |-> <<"1", "0", ".", "0", "1", ".", "2", "0", "2", "5">>,
     Category |-> TOP, SubcategoryName |-> EmptyStr, Project |-> <<"R", "O", "X">>,
     Year |-> <<"n", "/", "a">>, Position |-> <<"1">>, RU |-> <<"1">>],
    [Game |-> <<"H">>, Provider |-> <<"P">>, PromoStart |-> <<"3", "1", ".", "0", "2", ".", "2", "0", "2", "5">>, PromoEnd |-> <<"1", "0", ".", "0", "1", ".", "2", "0", "2", "5">>,
     Category |-> TOP, SubcategoryName |-> EmptyStr, Project |-> <<"J", "E", "T">>,
     Year |-> <<"2", "0", "2", "5">>, Position |-> <<"1">>, RU |-> <<"1">>],
    [Game |-> <<"N">>, Provider |-> <<"P">>, PromoStart |-> <<"N", "a", "T">>, PromoEnd |-> <<"2", "0", ".", "0", "1", ".", "2", "0", "2", "5">>,
     Category |-> <<"T", "O", "P">>, SubcategoryName |-> EmptyStr, Project |-> <<"R", "O", "X">>,
     Year |-> <<"2", "0", "2", "5">>, Position |-> <<"1">>, RU |-> <<"1">>]}

\* the table without the columns in drop
without_columns(t, drop) ==
    [columns |-> SelectSeq(t.columns, LAMBDA c : c \notin drop),
     rows |-> [i \in 1..Len(t.rows) |-> [c \in Cols(t) \ drop |-> t.rows[i][c]]]]

\* the pool rows that only their Year can exclude
YearRowPool ==
    {row \in RowPool :
        /\ \A c \in DOMAIN row \ {"SubcategoryName", "Position"} : row[c] # EmptyStr
        /\ row["Category"] = TOP
        /\ strptime(row["PromoStart"]).ok /\ strptime(row["PromoEnd"]).ok}

TablesOf(pool, drop) ==
    {without_columns([columns |-> FilterColumns, rows |-> rows], drop) :
        rows \in UNION {[1..n -> pool] : n \in 0..MaxRows}}

\* every table of at most MaxRows pool rows with a Year column, and every
\* table without one of at most MaxRows rows that only their Year can exclude
FilterTables == TablesOf(RowPool, {}) \cup TablesOf(YearRowPool, {"Year"})

QueryCategories == {TOP, KATEGORIYA}
QuerySubcategories == {None, SLOTS}
QueryProjects == {<<>>, <<ROX>>, <<RO>>}
QueryGeos == {"RU", "KZ", "XX"}

\* the filter forms submitted for the geo RU, whose column the tables have:
\* the category TOP with every combination of the two flags, two date ranges
\* and the project lists, the category KATEGORIYA with a subcategory without
\* flags; and one form of each category without flags and project list for
\* the category KATEGORIYA without a subcategory and for the geos KZ (valid,
\* but no column of the tables) and XX (invalid)
Queries ==
    {q \in [start_date : {D0101, D0501}, end_date : {D0101, D2001},
            category : QueryCategories, project : QueryProjects, geo : QueryGeos,
            subcategory : QuerySubcategories,
            exact_start_date : BOOLEAN, exact_end_date : BOOLEAN] :
        /\ <<q.start_date, q.end_date>> \in {<<D0101, D0101>>, <<D0501, D2001>>}
        /\ (q.category = TOP => q.subcategory = None)
        /\ (q.category = KATEGORIYA => ~q.exact_start_date /\ ~q.exact_end_date)
        /\ (q.geo # "RU" \/ (q.category = KATEGORIYA /\ q.subcategory = None) =>
                /\ q.start_date = D0101
                /\ ~q.exact_start_date /\ ~q.exact_end_date
                /\ q.project = <<>>)}

\* no sheet is fetched and no tracker runs
TrackIdle ==
    /\ sheet = <<>>
    /\ now = 0
    /\ changes_log = NoFile
    /\ detailed_log = NoFile
    /\ ret = NoRet
    /\ local = NoLocal

\* the web application has not run
AppIdle ==
    /\ session_state = NoSession
    /\ page = NoPage
    /\ mirror_cache = NoCache

NoQuery == [geo |-> ""]
NoResult == [status |-> "none", error |-> "", columns |-> <<>>, rows |-> <<>>]
NoTable == [columns |-> <<>>, rows |-> <<>>]
NoCall == [old |-> NoTable, new |-> NoTable]

-----------------------------------------------------------------------------
(* The filter scenario: a table is loaded and the filter form filled in,    *)
(* then the form is submitted                                               *)

InitFilter ==
    /\ df \in FilterTables
    /\ query \in Queries
    /\ result = NoResult
    /\ old_df = NoTable
    /\ new_df = NoTable
    /\ changes = NoChanges
    /\ call = NoCall
    /\ TrackIdle
    /\ pc = "filter"
    /\ AppIdle

\* relations.py:209-219: filter_promo_data(df, ...) with the form's values
CallFilter ==
    /\ pc = "filter"
    /\ result' = filter_promo_data(df, query.start_date, query.end_date,
                                   query.category, query.project, query.geo,
                                   query.subcategory, query.exact_start_date,
                                   query.exact_end_date)
    /\ pc' = "filtered"
    /\ UNCHANGED <<df, query, old_df, new_df, changes, call>>
    /\ UNCHANGED trackVars
    /\ UNCHANGED appVars

NextFilter == CallFilter

SpecFilter == InitFilter /\ [][NextFilter]_vars

-----------------------------------------------------------------------------
(* What the claims about filter_promo_data speak of *)

\* a cell that counts as empty: null or the empty string
IsEmptyCell(v) == v = NA \/ v = None \/ v = EmptyStr

ClaimedGeos == {"RU", "KZ", "UA", "CA", "DE", "AU", "BR", "PL", "PT", "CH", "AT"}

ClaimedRequired ==
    {"PromoStart", "PromoEnd", "Category", "Project", "Game", "Provider"}
        \cup (IF query.category = KATEGORIYA THEN {"SubcategoryName"} ELSE {})

\* the eligibility of an input row: the required cells are not empty, and
\* the Year, when the table has the column, is a number above 2024
Eligible(row) ==
    /\ \A c \in ClaimedRequired : ~IsEmptyCell(row[c])
    /\ "Year" \in Cols(df) =>
            /\ ~IsEmptyCell(row["Year"])
            /\ AllDigits(row["Year"])
            /\ DigitsValue(row["Year"]) > 2024

\* a is the same day as b, or an earlier one
NotAfter(a, b) ==
    \/ a.y < b.y
    \/ a.y = b.y /\ a.m < b.m
    \/ a.y = b.y /\ a.m = b.m /\ a.d <= b.d

SameDay(a, b) == a.y = b.y /\ a.m = b.m /\ a.d = b.d

\* the date test of the claim, by the two flags
ClaimedDateMatch(row) ==
    LET ps == strptime(row["PromoStart"])
        pe == strptime(row["PromoEnd"])
        qs == strptime(query.start_date)
        qe == strptime(query.end_date)
    IN  CASE query.exact_start_date /\ query.exact_end_date ->
                SameDay(ps, qs) /\ SameDay(pe, qe)
          [] query.exact_start_date /\ ~query.exact_end_date -> SameDay(ps, qs)
          [] ~query.exact_start_date /\ query.exact_end_date -> SameDay(pe, qe)
          [] OTHER -> NotAfter(ps, qe) /\ NotAfter(qs, pe)

\* the output has a row made from this input row
IsKept(row) ==
    \E k \in 1..Len(result.rows) :
        /\ result.rows[k]["Game"] = row["Game"]
        /\ result.rows[k]["Provider"] = row["Provider"]
        /\ result.rows[k]["Projects"] = row["Project"]
        /\ result.rows[k]["Category"] = row["Category"]

Returned == pc = "filtered" /\ result.status = "ok"

InputRows == {df.rows[i] : i \in 1..Len(df.rows)}

\* C1: among the eligible rows with two proper dates that pass the category
\* and the project test, the rows kept by a successful call are exactly
\* those that pass the date test the two flags select: both flags, start and end equal the query's;
\* exact start only, the start equals; exact end only, the end equals;
\* neither, the two inclusive intervals overlap.
C1_DateModes ==
    Returned =>
        \A row \in InputRows :
            (/\ Eligible(row)
             /\ strptime(row["PromoStart"]).ok /\ strptime(row["PromoEnd"]).ok
             /\ category_mask(row, query.category, query.subcategory)
             /\ project_mask(row["Project"], query.project))
            => (IsKept(row) <=> ClaimedDateMatch(row))

\* the example of the specification: the record 01.01.2025 - 10.01.2025 and
\* the query 05.01.2025 - 20.01.2025 with exact start only; the record is
\* not kept, a row that starts on 05.01.2025 is
C1_Witness ==
    /\ Returned
    /\ query.exact_start_date /\ ~query.exact_end_date
    /\ query.start_date = D0501 /\ query.category = TOP /\ query.project = <<>>
    /\ \E row \in InputRows :
        /\ Eligible(row) /\ row["Category"] = TOP
        /\ row["PromoStart"] = D0101 /\ row["PromoEnd"] = D1001
        /\ ~IsKept(row)
    /\ \E row \in InputRows :
        /\ Eligible(row) /\ row["PromoStart"] = D0501 /\ IsKept(row)

\* the text split at every comma
RECURSIVE SplitComma(_)
SplitComma(s) ==
    IF \A i \in 1..Len(s) : s[i] # "," THEN <<s>>
    ELSE LET p == CHOOSE i \in 1..Len(s) :
                    s[i] = "," /\ \A j \in 1..(i - 1) : s[j] # ","
         IN  <<SubSeq(s, 1, p - 1)>> \o SplitComma(SubSeq(s, p + 1, Len(s)))

RECURSIVE Strip(_)
Strip(s) ==
    IF s = <<>> THEN s
    ELSE IF s[1] = " " THEN Strip(Tail(s))
    ELSE IF s[Len(s)] = " " THEN Strip(SubSeq(s, 1, Len(s) - 1))
    ELSE s

\* the tags of a Project cell
Tags(cell) == {Strip(SplitComma(cell)[k]) : k \in 1..Len(SplitComma(cell))}

\* the project test of the claim: a whole tag is 'all' in any case, or a
\* whole tag is one of the queried projects
ClaimedProjectMatch(cell) ==
    \E tag \in Tags(cell) :
        \/ str_lower(tag) = <<"a", "l", "l">>
        \/ \E k \in 1..Len(query.project) : tag = query.project[k]

\* C2: with a non-empty project list, among the eligible rows that pass the
\* category and the date test, the rows kept are exactly those with a whole
\* tag 'all' or a whole tag equal to a queried project.
C2_ProjectTags ==
    (Returned /\ query.project # <<>>) =>
        \A row \in InputRows :
            (/\ Eligible(row)
             /\ strptime(row["PromoStart"]).ok /\ strptime(row["PromoEnd"]).ok
             /\ category_mask(row, query.category, query.subcategory)
             /\ ClaimedDateMatch(row))
            => (IsKept(row) <=> ClaimedProjectMatch(row["Project"]))

\* C3: every row of the result comes from an eligible input row, and a row
\* that is not eligible causes no error: a call fails only for its geo, its
\* missing subcategory, a position column the table lacks, or the date of
\* an eligible row.
C3_OnlyEligibleRows ==
    pc = "filtered" =>
        /\ result.status = "ok" =>
                \A k \in 1..Len(result.rows) :
                    \E row \in InputRows :
                        /\ Eligible(row)
                        /\ result.rows[k]["Game"] = row["Game"]
                        /\ result.rows[k]["Provider"] = row["Provider"]
                        /\ result.rows[k]["Projects"] = row["Project"]
                        /\ result.rows[k]["Category"] = row["Category"]
        /\ result.status = "error" =>
                \/ query.geo \notin ClaimedGeos
                \/ query.category = KATEGORIYA /\ query.subcategory = None
                \/ query.category \notin {KATEGORIYA, NOVINKI} /\ query.geo \notin Cols(df)
                \/ \E row \in InputRows :
                    /\ Eligible(row)
                    /\ ~strptime(row["PromoStart"]).ok \/ ~strptime(row["PromoEnd"]).ok

\* a call returned one row of a table that also holds a row without a Game
\* and a row whose Year is not above 2024
C3_Witness ==
    /\ Returned
    /\ "Year" \in Cols(df)
    /\ Len(df.rows) = 3
    /\ Len(result.rows) = 1
    /\ \E row \in InputRows : row["Game"] = EmptyStr
    /\ \E row \in InputRows :
        /\ ~IsEmptyCell(row["Game"])
        /\ ~(AllDigits(row["Year"]) /\ DigitsValue(row["Year"]) > 2024)

GeoAndSubcategoryGiven ==
    /\ query.geo \in ClaimedGeos
    /\ ~(query.category = KATEGORIYA /\ query.subcategory = None)

BadDate(row) ==
    ~strptime(row["PromoStart"]).ok \/ ~strptime(row["PromoEnd"]).ok

\* C4: when an eligible row has a PromoStart or PromoEnd that is no
\* day.month.year date, the call fails, whatever that row's category and
\* project are.
C4_BadDateFails ==
    (/\ pc = "filtered"
     /\ GeoAndSubcategoryGiven
     /\ \E row \in InputRows : Eligible(row) /\ BadDate(row))
    => result.status = "error"

\* C5: for a geo outside the eleven codes the call fails with the geo
\* error, also when the subcategory is missing or a date does not parse.
C5_InvalidGeoFails ==
    (pc = "filtered" /\ query.geo \notin ClaimedGeos)
        => result = Raise("ValueError: geo")

\* the geo error was raised although the subcategory is missing and an
\* eligible row has a bad date
C5_Witness ==
    /\ pc = "filtered"
    /\ query.geo = "XX"
    /\ query.category = KATEGORIYA /\ query.subcategory = None
    /\ \E row \in InputRows : BadDate(row)
    /\ result = Raise("ValueError: geo")

\* C6: KATEGORIYA without a subcategory fails whatever the rows are (with
\* the subcategory error once the geo is valid); for another category the
\* absent subcategory is no error.
C6_SubcategoryRequired ==
    pc = "filtered" =>
        /\ (query.category = KATEGORIYA /\ query.subcategory = None) =>
                /\ result.status = "error"
                /\ query.geo \in ClaimedGeos => result = Raise("ValueError: subcategory")
        /\ query.category # KATEGORIYA => result.error # "ValueError: subcategory"

\* the subcategory error was raised for a table with a bad date in it, and
\* so before the rows were looked at
C6_Witness ==
    /\ pc = "filtered"
    /\ query.category = KATEGORIYA /\ query.subcategory = None
    /\ \E row \in InputRows : BadDate(row)
    /\ result = Raise("ValueError: subcategory")

ReportColumns == <<"Position", "Game", "Provider", "Period", "Projects", "Category">>

\* the position column of the query is in the table
PositionColumnGiven ==
    IF query.category \in {KATEGORIYA, NOVINKI} THEN "Position" \in Cols(df)
    ELSE query.geo \in Cols(df)

\* an input row that passes every test of the query
Matches(row) ==
    /\ Eligible(row)
    /\ date_mask(to_datetime(row["PromoStart"]), to_datetime(row["PromoEnd"]),
                 strptime(query.start_date), strptime(query.end_date),
                 query.exact_start_date, query.exact_end_date)
    /\ category_mask(row, query.category, query.subcategory)
    /\ project_mask(row["Project"], query.project)

\* C7: a successful call returns exactly the six report columns in order,
\* in the frame and in every row; and a call whose arguments are valid and
\* whose eligible rows all have proper dates succeeds also when no row
\* matches, with a table of no rows.
C7_ReportColumns ==
    /\ Returned =>
        /\ result.columns = ReportColumns
        /\ \A k \in 1..Len(result.rows) :
            DOMAIN result.rows[k] = {ReportColumns[j] : j \in 1..6}
    /\ (/\ pc = "filtered"
        /\ GeoAndSubcategoryGiven
        /\ PositionColumnGiven
        /\ \A row \in InputRows : Eligible(row) => ~BadDate(row)
        /\ \A row \in InputRows : ~Matches(row))
       => (result.status = "ok" /\ result.rows = <<>>)

\* a table with eligible rows none of which matches: six columns, no rows
C7_Witness ==
    /\ Returned
    /\ \E row \in InputRows : Eligible(row)
    /\ result.rows = <<>>
    /\ result.columns = ReportColumns

\* C8: the result is in ascending order of the numeric Position with the
\* rows without a number behind all others, and it has one row for every
\* matching input row, a number in its position cell or not.
C8_SortedByPosition ==
    Returned =>
        /\ \A i, j \in 1..Len(result.rows) :
            i < j =>
                \/ result.rows[j]["Position"].nan
                \/ /\ ~result.rows[i]["Position"].nan
                   /\ result.rows[i]["Position"].v <= result.rows[j]["Position"].v
        /\ Len(result.rows) = Cardinality({i \in 1..Len(df.rows) : Matches(df.rows[i])})

\* the example of the specification: positions 3, none, 1 come out as
\* 1, 3, none
C8_Witness ==
    /\ Returned
    /\ Len(df.rows) = 3
    /\ query.category = TOP /\ query.geo = "RU"
    /\ df.rows[1]["RU"] = <<"3">>
    /\ IsEmptyCell(df.rows[2]["RU"])
    /\ df.rows[3]["RU"] = <<"1">>
    /\ Len(result.rows) = 3
    /\ result.rows[1]["Position"] = Num(1)
    /\ result.rows[2]["Position"] = Num(3)
    /\ result.rows[3]["Position"] = NaN

-----------------------------------------------------------------------------
(* Inputs of the diff scenario *)

\* the most rows a frame handed to get_detailed_row_changes has
MaxDiffRows == 2

DiffColumns == <<"Game", "Provider", "Score">>

\* the rows the frames are made of: a row and the same row with another
\* Score; two rows whose Game and Provider differ but join to the same
\* composite key, one with a null Score and one with an empty Score; a row
\* apart from all others
DiffRowPool ==
    {[Game |-> <<"a">>, Provider |-> <<"b">>, Score |-> <<"5">>],
     [Game |-> <<"a">>, Provider |-> <<"b">>, Score |-> <<"6">>],
     [Game |-> <<"a", "|">>, Provider |-> <<"b">>, Score |-> NA],
     [Game |-> <<"a">>, Provider |-> <<"|", "b">>, Score |-> EmptyStr],
     [Game |-> <<"c">>, Provider |-> <<"d">>, Score |-> <<"7">>]}

DiffTables(drop) ==
    {without_columns([columns |-> DiffColumns, rows |-> rows], drop) :
        rows \in UNION {[1..n -> DiffRowPool] : n \in 0..MaxDiffRows}}

\* the columns the old and the new frame lack: both have all three columns;
\* both lack Provider; both have no key column at all; the new frame has
\* lost Score; the new frame has lost Provider
DiffSchemas ==
    {<<{}, {}>>, <<{"Provider"}, {"Provider"}>>,
     <<{"Game", "Provider"}, {"Game", "Provider"}>>,
     <<{}, {"Score"}>>, <<{}, {"Provider"}>>}

-----------------------------------------------------------------------------
(* The diff scenario: two frames are compared once *)

InitDiff ==
    /\ \E sch \in DiffSchemas :
        /\ old_df \in DiffTables(sch[1])
        /\ new_df \in DiffTables(sch[2])
    /\ changes = NoChanges
    /\ call = NoCall
    /\ df = NoTable
    /\ query = NoQuery
    /\ result = NoResult
    /\ TrackIdle
    /\ pc = "diff"
    /\ AppIdle

\* history_tracker.py:517: get_detailed_row_changes(previous_data,
\* current_data); the call writes the service columns into its arguments
CallDiff ==
    /\ pc = "diff"
    /\ \E added_order \in Orders(IF empty(old_df) \/ empty(new_df) THEN {}
                                 ELSE added_keys(old_df, new_df)),
          deleted_order \in Orders(IF empty(old_df) \/ empty(new_df) THEN {}
                                   ELSE deleted_keys(old_df, new_df)),
          common_order \in Orders(IF empty(old_df) \/ empty(new_df) THEN {}
                                  ELSE common_keys(old_df, new_df)) :
        changes' = get_detailed_row_changes(old_df, new_df, added_order,
                                            deleted_order, common_order)
    /\ call' = [old |-> old_df, new |-> new_df]
    /\ old_df' = frame_after(old_df, old_df, new_df)
    /\ new_df' = frame_after(new_df, old_df, new_df)
    /\ pc' = "diffed"
    /\ UNCHANGED <<df, query, result>>
    /\ UNCHANGED trackVars
    /\ UNCHANGED appVars

NextDiff == CallDiff

SpecDiff == InitDiff /\ [][NextDiff]_vars

-----------------------------------------------------------------------------
(* What the claims about get_detailed_row_changes speak of *)

\* the call compared two frames that both have rows
ComparedNonEmpty == pc = "diffed" /\ ~empty(call.old) /\ ~empty(call.new)

\* the composite keys of the rows of the old and of the new frame
OldKeys == key_set(with_keys(call.old, call.old, call.new))
NewKeys == key_set(with_keys(call.new, call.old, call.new))

InRows(t) == {t.rows[i] : i \in 1..Len(t.rows)}

RowKeys(entries) == {entries[k].row_key : k \in 1..Len(entries)}

\* C9: for two non-empty frames the added rows are one per key that is in
\* new and not in old, the deleted rows one per key that is in old and not
\* in new, the modified rows have keys that are in both, each at most
\* once, and so no key is in two of the three lists.
C9_KeyPartition ==
    ComparedNonEmpty =>
        LET old_keys == OldKeys
            new_keys == NewKeys
            added == RowKeys(changes.added_rows)
            deleted == RowKeys(changes.deleted_rows)
            modified == RowKeys(changes.modified_rows)
        IN  /\ added = new_keys \ old_keys
            /\ Len(changes.added_rows) = Cardinality(new_keys \ old_keys)
            /\ deleted = old_keys \ new_keys
            /\ Len(changes.deleted_rows) = Cardinality(old_keys \ new_keys)
            /\ modified \subseteq (old_keys \cap new_keys)
            /\ Len(changes.modified_rows) = Cardinality(modified)
            /\ added \cap deleted = {}
            /\ added \cap modified = {}
            /\ deleted \cap modified = {}

\* one call reported an added, a deleted and a modified row
C9_Witness ==
    /\ ComparedNonEmpty
    /\ Len(changes.added_rows) = 1
    /\ Len(changes.deleted_rows) = 1
    /\ Len(changes.modified_rows) = 1

\* the cell of a row in a column; a column the row lacks is a missing cell
CellOf(row, c) == IF c \in DOMAIN row THEN row[c] ELSE NA

IsMissing(v) == v = NA \/ v = None

\* the columns of old's schema in which two rows differ: exactly one side
\* is missing, or both are there with different texts
DifferingColumns(old_row, new_row) ==
    {c \in Cols(call.old) :
        LET o == CellOf(old_row, c)
            n == CellOf(new_row, c)
        IN  \/ IsMissing(o) /\ ~IsMissing(n)
            \/ ~IsMissing(o) /\ IsMissing(n)
            \/ ~IsMissing(o) /\ ~IsMissing(n) /\ o # n}

ModifiedEntries(key) ==
    {k \in 1..Len(changes.modified_rows) : changes.modified_rows[k].row_key = key}

\* what the claim says of one key that is in both frames; old_row and
\* new_row are the first rows with the key
CellChangesOfKey(key, old_row, new_row) ==
    LET differing == DifferingColumns(old_row, new_row)
    IN  IF differing = {}
        THEN ModifiedEntries(key) = {}
        ELSE /\ Cardinality(ModifiedEntries(key)) = 1
             /\ \A k \in ModifiedEntries(key) :
                LET cc == changes.modified_rows[k].changes
                IN  /\ Len(cc) = Cardinality(differing)
                    /\ {cc[j].column : j \in 1..Len(cc)} = differing
                    /\ \A j \in 1..Len(cc) :
                        LET o == CellOf(old_row, cc[j].column)
                            n == CellOf(new_row, cc[j].column)
                        IN  /\ cc[j].old_value = (IF IsMissing(o) THEN None ELSE o)
                            /\ cc[j].new_value = (IF IsMissing(n) THEN None ELSE n)

\* C10: for every key in both frames, the columns of old's schema that
\* differ between the first rows with that key are exactly the columns
\* reported, each once and with its old and new value (none for a missing
\* cell); a key without a differing column has no modified entry, a key
\* with some has exactly one.
C10_CellChanges ==
    ComparedNonEmpty =>
        LET old_k == with_keys(call.old, call.old, call.new)
            new_k == with_keys(call.new, call.old, call.new)
        IN  \A key \in key_set(old_k) \cap key_set(new_k) :
                CellChangesOfKey(key, first_row(old_k, key), first_row(new_k, key))

\* one call found a key whose rows are equal and a key whose rows differ in
\* three columns, in one of them by a missing cell against a present one
C10_Witness ==
    /\ ComparedNonEmpty
    /\ \E key \in (OldKeys \cap NewKeys) \ RowKeys(changes.modified_rows) :
        \E i \in 1..Len(call.old.rows) : call.old.rows[i] \in InRows(call.new)
    /\ Len(changes.modified_rows) = 1
    /\ Len(changes.modified_rows[1].changes) = 3
    /\ \E j \in 1..3 :
        /\ changes.modified_rows[1].changes[j].old_value = None
        /\ changes.modified_rows[1].changes[j].new_value = EmptyStr

\* C11: a frame with rows and a natural key column, compared with an equal
\* frame, gives no added, no deleted and no modified row and total_changes
\* 0, whatever null cells and repeated keys it has.
C11_SelfDiffEmpty ==
    (/\ ComparedNonEmpty
     /\ call.old = call.new
     /\ natural_key_columns(call.old, call.new) # <<>>)
    => /\ changes.added_rows = <<>>
       /\ changes.deleted_rows = <<>>
       /\ changes.modified_rows = <<>>
       /\ changes.summary.total_changes = 0

\* a frame of two rows with the same key, one of them with a null cell, was
\* compared with itself
C11_Witness ==
    /\ ComparedNonEmpty
    /\ call.old = call.new
    /\ natural_key_columns(call.old, call.new) # <<>>
    /\ Len(call.old.rows) = 2
    /\ Cardinality(OldKeys) = 1
    /\ \E i \in 1..2 : \E c \in Cols(call.old) : call.old.rows[i][c] = NA
    /\ changes.summary.total_changes = 0

HasNoRows(t) == Len(t.rows) = 0

\* the entry of a change list reports the row: it is the row, or holds it
\* as its data
Reports(entry, row) ==
    \/ entry = row
    \/ "data" \in DOMAIN entry /\ entry["data"] = row

\* entries reports every row of the frame t, one entry per row
ReportsEveryRow(entries, t) ==
    /\ Len(entries) = Len(t.rows)
    /\ \A i \in 1..Len(t.rows) : Reports(entries[i], t.rows[i])

\* C12: two frames without rows give the empty diff; when only old has no
\* rows every row of new is reported as added and nothing else is reported,
\* when only new has no rows every row of old is reported as deleted, and
\* rows_added or rows_deleted and total_changes are the row count of the
\* frame that has rows.
C12_EmptyFrames ==
    pc = "diffed" =>
        /\ (HasNoRows(call.old) /\ HasNoRows(call.new)) => changes = NoChanges
        /\ (HasNoRows(call.old) /\ ~HasNoRows(call.new)) =>
            /\ ReportsEveryRow(changes.added_rows, call.new)
            /\ changes.deleted_rows = <<>> /\ changes.modified_rows = <<>>
            /\ changes.summary.rows_added = Len(call.new.rows)
            /\ changes.summary.total_changes = Len(call.new.rows)
        /\ (~HasNoRows(call.old) /\ HasNoRows(call.new)) =>
            /\ ReportsEveryRow(changes.deleted_rows, call.old)
            /\ changes.added_rows = <<>> /\ changes.modified_rows = <<>>
            /\ changes.summary.rows_deleted = Len(call.old.rows)
            /\ changes.summary.total_changes = Len(call.old.rows)

\* a frame without rows was compared with a frame of two rows that have the
\* same key
C12_Witness ==
    /\ pc = "diffed"
    /\ HasNoRows(call.old)
    /\ Len(call.new.rows) = 2
    /\ "Game" \in Cols(call.new) /\ "Provider" \in Cols(call.new)
    /\ call.new.rows[1]["Game"] = call.new.rows[2]["Game"]
    /\ call.new.rows[1]["Provider"] = call.new.rows[2]["Provider"]
    /\ changes.summary.rows_added = 2

\* the value returned is a diff and not an error
IsDiff(c) == "summary" \in DOMAIN c

\* C13: when no natural key column is in both frames the call fails with an
\* error and returns no diff (the function has no parameter by which a
\* caller could ask for row positions as keys).
C13_NoSilentFallback ==
    (/\ ComparedNonEmpty
     /\ natural_key_columns(call.old, call.new) = <<>>)
    => ~IsDiff(changes)

\* the number of cell changes of a list of modified rows
RECURSIVE CellCount(_)
CellCount(entries) ==
    IF entries = <<>> THEN 0
    ELSE Len(Head(entries).changes) + CellCount(Tail(entries))

\* C14: in every diff returned, rows_added, rows_deleted and rows_modified
\* are the lengths of the three lists, cells_changed is the number of cell
\* changes of all modified rows together and total_changes is the sum of
\* the three row counts.
C14_SummaryAgrees ==
    pc = "diffed" =>
        /\ changes.summary.rows_added = Len(changes.added_rows)
        /\ changes.summary.rows_deleted = Len(changes.deleted_rows)
        /\ changes.summary.rows_modified = Len(changes.modified_rows)
        /\ changes.summary.cells_changed = CellCount(changes.modified_rows)
        /\ changes.summary.total_changes =
            changes.summary.rows_added + changes.summary.rows_deleted
            + changes.summary.rows_modified

\* one call found an added row and a modified row with three cell changes
C14_Witness ==
    /\ ComparedNonEmpty
    /\ changes.summary.rows_added = 1
    /\ changes.summary.rows_modified = 1
    /\ changes.summary.cells_changed = 3
    /\ changes.summary.total_changes = 2

-----------------------------------------------------------------------------
(* The load scenario: the API answers with a grid and load_sheet_to_df     *)
(* turns it into a frame                                                    *)

\* the most data rows and the most cells in a row of a grid
MaxGridRows == 2
MaxGridCells == 3

GridCells == {<<"a">>, EmptyStr}
GridHeaders == {<<"Game">>, <<"Game", "Provider">>}
GridRows == UNION {[1..n -> GridCells] : n \in 0..MaxGridCells}

\* the answer without 'values', and every grid of a header of distinct
\* names and at most MaxGridRows data rows of at most MaxGridCells cells
LoadGrids ==
    {<<>>} \cup
    {<<header>> \o data :
        header \in GridHeaders,
        data \in UNION {[1..n -> GridRows] : n \in 0..MaxGridRows}}

InitLoad ==
    /\ sheet \in LoadGrids
    /\ now = 0
    /\ changes_log = NoFile
    /\ detailed_log = NoFile
    /\ ret = NoRet
    /\ local = NoLocal
    /\ df = NoTable
    /\ query = NoQuery
    /\ result = NoResult
    /\ old_df = NoTable
    /\ new_df = NoTable
    /\ changes = NoChanges
    /\ call = NoCall
    /\ pc = "load"
    /\ AppIdle

\* relations.py:33: df = load_sheet_to_df(...)
CallLoad ==
    /\ pc = "load"
    /\ result' = load_sheet_to_df(sheet)
    /\ pc' = "loaded"
    /\ UNCHANGED <<df, query, old_df, new_df, changes, call>>
    /\ UNCHANGED trackVars
    /\ UNCHANGED appVars

NextLoad == CallLoad

SpecLoad == InitLoad /\ [][NextLoad]_vars

-----------------------------------------------------------------------------
(* What the claims about load_sheet_to_df speak of *)

Header == Head(sheet)
DataRows == Tail(sheet)

\* C19: for a grid with a header row and no data row longer than the
\* header, the call returns a frame with one row per data row, in grid
\* order, each keyed by exactly the header names; a cell the data row has is
\* the cell of the frame, a trailing cell it lacks is empty or null.
C19_RowsPadded ==
    (/\ pc = "loaded"
     /\ sheet # <<>>
     /\ \A i \in 1..Len(DataRows) : Len(DataRows[i]) <= Len(Header))
    => /\ result.status = "ok"
       /\ Len(result.rows) = Len(sheet) - 1
       /\ \A i \in 1..Len(result.rows) :
            /\ DOMAIN result.rows[i] = {Header[j] : j \in 1..Len(Header)}
            /\ \A j \in 1..Len(Header) :
                IF j <= Len(DataRows[i])
                THEN result.rows[i][Header[j]] = DataRows[i][j]
                ELSE IsEmptyCell(result.rows[i][Header[j]])

\* C20: the call fails exactly when the grid has no row at all; a grid
\* of a header row only gives a frame without rows that has the header's
\* columns.
C20_FailsOnlyWithoutRows ==
    pc = "loaded" =>
        /\ result.status = "error" <=> sheet = <<>>
        /\ Len(sheet) = 1 =>
            /\ result.status = "ok"
            /\ result.columns = Header
            /\ result.rows = <<>>

-----------------------------------------------------------------------------
(* The hash scenario: two loaded frames are hashed as track_data_changes    *)
(* hashes the frame it loads                                                 *)

\* the most rows of a hashed frame
MaxHashRows == 2

HashColumns == <<"Game", "Score">>

\* the rows of the hashed frames: a row, the same row with an empty, with a
\* null and with another Score, a row with a comma and a quote in a cell
HashRowPool ==
    {[Game |-> <<"a">>, Score |-> <<"5">>],
     [Game |-> <<"a">>, Score |-> EmptyStr],
     [Game |-> <<"a">>, Score |-> None],
     [Game |-> <<"a">>, Score |-> <<"6">>],
     [Game |-> <<"a", ",", "\"">>, Score |-> <<"5">>]}

HashTables ==
    {[columns |-> HashColumns, rows |-> rows] :
        rows \in UNION {[1..n -> HashRowPool] : n \in 0..MaxHashRows}}

InitHash ==
    /\ old_df \in HashTables
    /\ new_df \in HashTables
    /\ result = NoResult
    /\ df = NoTable
    /\ query = NoQuery
    /\ changes = NoChanges
    /\ call = NoCall
    /\ TrackIdle
    /\ pc = "hash"
    /\ AppIdle

\* history_tracker.py:91-95 for the frames of two loads
CallHash ==
    /\ pc = "hash"
    /\ result' = [status |-> "ok", error |-> "",
                  columns |-> <<>>, rows |-> <<>>,
                  old_hash |-> content_hash(old_df),
                  new_hash |-> content_hash(new_df)]
    /\ pc' = "hashed"
    /\ UNCHANGED <<df, query, old_df, new_df, changes, call>>
    /\ UNCHANGED trackVars
    /\ UNCHANGED appVars

NextHash == CallHash

SpecHash == InitHash /\ [][NextHash]_vars

-----------------------------------------------------------------------------
(* What the claim about the content hash speaks of *)

\* the cell with null and the empty string taken for the same
NormalCell(v) == IF IsEmptyCell(v) THEN EmptyStr ELSE v

\* the rows of a frame in their order, with normalized cells
NormalRows(t) ==
    [i \in 1..Len(t.rows) |-> [c \in DOMAIN t.rows[i] |-> NormalCell(t.rows[i][c])]]

\* s is t in another order
IsReordering(s, t) ==
    /\ Len(s) = Len(t)
    /\ s # t
    /\ \E p \in Orders(1..Len(s)) : \A i \in 1..Len(s) : s[i] = t[p[i]]

\* C17: two frames with the same columns whose rows are equal up to null
\* against empty cells have the same hash, and two frames whose normalized
\* rows are the same rows in another order have different hashes.
C17_HashOfContent ==
    pc = "hashed" =>
        /\ NormalRows(old_df) = NormalRows(new_df) => result.old_hash = result.new_hash
        /\ IsReordering(NormalRows(old_df), NormalRows(new_df)) =>
                result.old_hash # result.new_hash

\* two frames were hashed that have the same two rows, one of them with a
\* null cell, in the other order
C17_Witness ==
    /\ pc = "hashed"
    /\ Len(old_df.rows) = 2 /\ Len(new_df.rows) = 2
    /\ old_df.rows[1] = new_df.rows[2]
    /\ old_df.rows[2] = new_df.rows[1]
    /\ old_df.rows[1]["Score"] = None
    /\ result.old_hash # result.new_hash

-----------------------------------------------------------------------------
(* The tracking scenario: the sheet is edited and track_data_changes is    *)
(* called, one call after the other                                         *)

\* the most edits of the sheet
MaxEdits == 3

\* the grids the sheet takes: no row at all; a header only; one row; the
\* row with another Score; a row shorter than the header below a full row;
\* the same two rows with the empty cell written out, in the other order;
\* one short row only; a sheet without a key column
TrackGrids ==
    {<<>>,
     <<<<"Game", "Score">>>>,
     <<<<"Game", "Score">>, <<<<"a">>, <<"5">>>>>>,
     <<<<"Game", "Score">>, <<<<"a">>, <<"6">>>>>>,
     <<<<"Game", "Score">>, <<<<"a">>, <<"5">>>>, <<<<"b">>>>>>,
     <<<<"Game", "Score">>, <<<<"b">>, EmptyStr>>, <<<<"a">>, <<"5">>>>>>,
     <<<<"Game", "Score">>, <<<<"a">>>>>>,
     <<<<"Score">>, <<<<"5">>>>>>}

InitTrack ==
    /\ sheet \in TrackGrids
    /\ now = 0
    /\ changes_log = NoFile
    /\ detailed_log = NoFile
    /\ ret = NoRet
    /\ local = NoLocal
    /\ df = NoTable
    /\ query = NoQuery
    /\ result = NoResult
    /\ old_df = NoTable
    /\ new_df = NoTable
    /\ changes = NoChanges
    /\ call = NoCall
    /\ pc = "edited"
    /\ AppIdle

\* somebody edits the sheet; time passes
EditSheet ==
    /\ now < MaxEdits
    /\ sheet' \in TrackGrids \ {sheet}
    /\ now' = now + 1
    /\ pc' = "edited"
    /\ UNCHANGED <<df, query, result, old_df, new_df, changes, call>>
    /\ UNCHANGED <<changes_log, detailed_log, ret, local>>
    /\ UNCHANGED appVars

\* history_tracker.py:71-158: one whole call of track_data_changes
TrackData ==
    /\ LET cur == load_current(sheet)
       IN  IF ~cur.ok
           THEN /\ ret' = [kind |-> "coarse", info |-> load_failed(now, cur.error)]
                /\ changes_log' = changes_log
           ELSE LET history == read_history(changes_log)
                    info == coarse_info(now, cur, history)
                IN  /\ ret' = [kind |-> "coarse", info |-> info]
                    /\ changes_log' = coarse_file_after(changes_log, history, info)
    /\ pc' = "coarse"
    /\ UNCHANGED <<df, query, result, old_df, new_df, changes, call>>
    /\ UNCHANGED <<sheet, now, detailed_log, local>>
    /\ UNCHANGED appVars

NextTrack == EditSheet \/ TrackData

SpecTrack == InitTrack /\ [][NextTrack]_vars

-----------------------------------------------------------------------------
(* What the claim about track_data_changes speaks of *)

\* the sheet loads
Loads == load_sheet_to_df(sheet).status = "ok"

\* the hash of the data of the sheet
CurrentHash ==
    LET r == load_sheet_to_df(sheet)
    IN  content_hash([columns |-> r.columns, rows |-> r.rows])

\* the hash in the file differs from h, or the file has none
DiffersFromPersisted(h) ==
    \/ changes_log = NoFile
    \/ changes_log.last_hash # h

PersistedChanges(file) == IF file = NoFile THEN <<>> ELSE file.changes

\* a call of track_data_changes on a sheet that loads
CoarseCallStep == pc' = "coarse" /\ Loads

-----------------------------------------------------------------------------
(* The retention scenario: the sheet is revised again and again, and       *)
(* between two revisions both trackers are called, one call after the      *)
(* other, until each has recorded the revision                              *)

\* the most revisions of the sheet
MaxRevisions == 102

GridA == <<<<"Game", "Score">>, <<<<"a">>, <<"5">>>>>>
GridB == <<<<"Game", "Score">>, <<<<"a">>, <<"6">>>>>>

\* the timestamp of the last entry of a history file, -1 without one
LastTimestamp(file) ==
    IF file = NoFile \/ file.changes = <<>> THEN -1
    ELSE file.changes[Len(file.changes)].timestamp

InitRetention ==
    /\ sheet = GridA
    /\ now = 0
    /\ changes_log = NoFile
    /\ detailed_log = NoFile
    /\ ret = NoRet
    /\ local = NoLocal
    /\ df = NoTable
    /\ query = NoQuery
    /\ result = NoResult
    /\ old_df = NoTable
    /\ new_df = NoTable
    /\ changes = NoChanges
    /\ call = NoCall
    /\ pc = "edited"
    /\ AppIdle

\* the Score of the sheet is changed once both trackers have recorded the
\* sheet as it is; time passes
ReviseSheet ==
    /\ now < MaxRevisions
    /\ LastTimestamp(changes_log) = now
    /\ LastTimestamp(detailed_log) = now
    /\ sheet' = IF sheet = GridA THEN GridB ELSE GridA
    /\ now' = now + 1
    /\ pc' = "edited"
    /\ UNCHANGED <<df, query, result, old_df, new_df, changes, call>>
    /\ UNCHANGED <<changes_log, detailed_log, ret, local>>
    /\ UNCHANGED appVars

\* history_tracker.py:465-542: one whole call of track_detailed_changes; a
\* load that raises ends the call
TrackDetailed ==
    /\ IF load_sheet_to_df(sheet).status = "error"
       THEN /\ ret' = [kind |-> "detailed", raised |-> load_sheet_to_df(sheet).error]
            /\ detailed_log' = detailed_log
       ELSE LET current == detailed_current(sheet)
                history == read_detailed_history(detailed_log)
            IN  IF ~has_last_data(history)
                THEN LET info == first_run_info(now, current)
                     IN  /\ ret' = [kind |-> "detailed", info |-> info]
                         /\ detailed_log' =
                                detailed_file_after(detailed_log, history, info, current)
                ELSE LET previous == previous_frame(history)
                         short == empty(previous) \/ empty(current)
                     IN  \E added_order \in Orders(IF short THEN {}
                                   ELSE added_keys(previous, current)),
                            deleted_order \in Orders(IF short THEN {}
                                   ELSE deleted_keys(previous, current)),
                            common_order \in Orders(IF short THEN {}
                                   ELSE common_keys(previous, current)) :
                            LET diff == get_detailed_row_changes(previous, current,
                                            added_order, deleted_order, common_order)
                                after == frame_after(current, previous, current)
                                info == compared_info(now, after, diff)
                            IN  /\ ret' = [kind |-> "detailed", info |-> info]
                                /\ detailed_log' =
                                    detailed_file_after(detailed_log, history, info, after)
    /\ pc' = "detailed"
    /\ UNCHANGED <<df, query, result, old_df, new_df, changes, call>>
    /\ UNCHANGED <<sheet, now, changes_log, local>>
    /\ UNCHANGED appVars

NextRetention == ReviseSheet \/ TrackData \/ TrackDetailed

SpecRetention == InitRetention /\ [][NextRetention]_vars

-----------------------------------------------------------------------------
(* What the claim about the retention of the histories speaks of *)

\* the entries of the file are the last entries appended, in the order in
\* which they were appended: in this scenario a tracker appends one entry
\* at every time from 0 on, so the file holds the entries of the last
\* Len(entries) times up to its last one, and holds all entries ever
\* appended or as many as the cap allows
HoldsMostRecent(file, cap) ==
    LET entries == PersistedChanges(file)
        last == LastTimestamp(file)
    IN  /\ Len(entries) <= cap
        /\ Len(entries) = (IF last + 1 <= cap THEN last + 1 ELSE cap)
        /\ \A i \in 1..Len(entries) : entries[i].timestamp = last - (Len(entries) - i)

\* the entry the last call appended is the last entry of the file
LastCallIsLast(kind, file) ==
    (pc = kind /\ (ret.info.has_changes \/ (kind = "detailed" /\ ret.info.is_first_run)))
    => /\ file # NoFile
       /\ file.changes # <<>>
       /\ file.changes[Len(file.changes)] = ret.info

\* C16: the coarse history in the file never has more than 100 entries and
\* the detailed history never more than 50; each holds the entries appended
\* last, oldest first, and the entry of the call that just appended is the
\* last one.
C16_HistoryCapped ==
    /\ HoldsMostRecent(changes_log, 100)
    /\ HoldsMostRecent(detailed_log, 50)
    /\ LastCallIsLast("coarse", changes_log)
    /\ LastCallIsLast("detailed", detailed_log)

\* both histories are full and have lost their oldest entries: the coarse
\* one the entries of times 0 and 1, the detailed one more than fifty
C16_Witness ==
    /\ changes_log # NoFile
    /\ Len(changes_log.changes) = 100
    /\ changes_log.changes[1].timestamp = 2
    /\ detailed_log # NoFile
    /\ Len(detailed_log.changes) = 50
    /\ detailed_log.changes[1].timestamp > 50

-----------------------------------------------------------------------------
(* The race scenario: two callers are inside track_data_changes at the     *)
(* same time, each making one call, while the sheet is edited               *)

Callers == {1, 2}

\* a caller that has not entered the function
NotCalled == [pc |-> "start", cur |-> [ok |-> FALSE], history |-> read_history(NoFile),
              info |-> [has_changes |-> FALSE]]

InitRace ==
    /\ sheet \in TrackGrids
    /\ now = 0
    /\ changes_log = NoFile
    /\ detailed_log = NoFile
    /\ ret = NoRet
    /\ local = [c \in Callers |-> NotCalled]
    /\ df = NoTable
    /\ query = NoQuery
    /\ result = NoResult
    /\ old_df = NoTable
    /\ new_df = NoTable
    /\ changes = NoChanges
    /\ call = NoCall
    /\ pc = "edited"
    /\ AppIdle

\* history_tracker.py:86-108: the caller loads and hashes the sheet; when
\* the load raises the call returns
RaceLoad(c) ==
    /\ local[c].pc = "start"
    /\ LET cur == load_current(sheet)
       IN  local' = [local EXCEPT ![c] =
                IF cur.ok THEN [@ EXCEPT !.pc = "loaded", !.cur = cur]
                ELSE [@ EXCEPT !.pc = "done", !.info = load_failed(now, cur.error)]]
    /\ UNCHANGED <<df, query, result, old_df, new_df, changes, call, pc>>
    /\ UNCHANGED <<sheet, now, changes_log, detailed_log, ret>>
    /\ UNCHANGED appVars

\* history_tracker.py:110-119: the caller reads the history file
RaceRead(c) ==
    /\ local[c].pc = "loaded"
    /\ local' = [local EXCEPT ![c] =
            [@ EXCEPT !.pc = "read", !.history = read_history(changes_log)]]
    /\ UNCHANGED <<df, query, result, old_df, new_df, changes, call, pc>>
    /\ UNCHANGED <<sheet, now, changes_log, detailed_log, ret>>
    /\ UNCHANGED appVars

\* history_tracker.py:122-158: the caller compares the hashes and, when they
\* differ, writes the history it has read, with its entry appended, over
\* the file
RaceWrite(c) ==
    /\ local[c].pc = "read"
    /\ LET info == coarse_info(now, local[c].cur, local[c].history)
       IN  /\ local' = [local EXCEPT ![c] = [@ EXCEPT !.pc = "done", !.info = info]]
           /\ changes_log' = coarse_file_after(changes_log, local[c].history, info)
    /\ UNCHANGED <<df, query, result, old_df, new_df, changes, call, pc>>
    /\ UNCHANGED <<sheet, now, detailed_log, ret>>
    /\ UNCHANGED appVars

NextRace ==
    \/ EditSheet
    \/ \E c \in Callers : RaceLoad(c)
    \/ \E c \in Callers : RaceRead(c)
    \/ \E c \in Callers : RaceWrite(c)

SpecRace == InitRace /\ [][NextRace]_vars

-----------------------------------------------------------------------------
(* What the claim about concurrent callers speaks of *)

\* the caller has returned from a call that appended an entry
Appended(c) == local[c].pc = "done" /\ local[c].info.has_changes

\* the changes the caller read from the file
ReadChanges(c) == local[c].history.changes

\* both callers read the history before either wrote it: both appended to
\* the same history
BothReadFirst == Appended(1) /\ Appended(2) /\ local[1].history = local[2].history

\* the caller b read the history after the caller a had written it
ReadAfterWrite(a, b) ==
    /\ Appended(a)
    /\ local[b].pc = "done" /\ local[b].cur.ok
    /\ ReadChanges(b) = Append(ReadChanges(a), local[a].info)

\* C18: when both callers read the history before either wrote it, the
\* file afterwards holds the history they read and the entry of one caller
\* only, so the entry the other appended is not in it; when one caller
\* read the history after the other had written it, the file holds the
\* entries of both calls that appended, in the order of the calls.
C18_LostUpdate ==
    /\ BothReadFirst =>
        \E c \in Callers :
            /\ changes_log.changes = Append(ReadChanges(c), local[c].info)
            /\ \A d \in Callers \ {c} : local[d].info # local[c].info =>
                \A i \in 1..Len(changes_log.changes) :
                    changes_log.changes[i] # local[d].info
    /\ \A a \in Callers : \A b \in Callers \ {a} :
        ReadAfterWrite(a, b) =>
            changes_log.changes =
                (IF local[b].info.has_changes
                 THEN ReadChanges(a) \o <<local[a].info, local[b].info>>
                 ELSE Append(ReadChanges(a), local[a].info))

\* both callers read the absent history, both appended an entry, for
\* different data, and the file holds one entry
C18_Witness ==
    /\ BothReadFirst
    /\ local[1].info.current_hash # local[2].info.current_hash
    /\ Len(changes_log.changes) = 1


-----------------------------------------------------------------------------
(* The snapshot scenario: the sheet is edited and track_detailed_changes    *)
(* is called, one call after the other, from an absent tracking file        *)

\* the most edits of the sheet between the calls of track_detailed_changes
MaxSnapshotEdits == 2

\* the most entries of the detailed history up to which calls are made
MaxSnapshotEntries == 3

\* the grids of the tracking scenario, and the one-row sheet with a column
\* added to it
SnapshotGrids ==
    TrackGrids \cup
    {<<<<"Game", "Score", "Note">>, <<<<"a">>, <<"5">>, <<"x">>>>>>}

InitSnapshot ==
    /\ sheet \in SnapshotGrids
    /\ now = 0
    /\ changes_log = NoFile
    /\ detailed_log = NoFile
    /\ ret = NoRet
    /\ local = NoLocal
    /\ df = NoTable
    /\ query = NoQuery
    /\ result = NoResult
    /\ old_df = NoTable
    /\ new_df = NoTable
    /\ changes = NoChanges
    /\ call = NoCall
    /\ pc = "edited"
    /\ AppIdle

\* somebody edits the sheet; time passes
EditTrackedSheet ==
    /\ now < MaxSnapshotEdits
    /\ sheet' \in SnapshotGrids \ {sheet}
    /\ now' = now + 1
    /\ pc' = "edited"
    /\ UNCHANGED <<df, query, result, old_df, new_df, changes, call>>
    /\ UNCHANGED <<changes_log, detailed_log, ret, local>>
    /\ UNCHANGED appVars

\* track_detailed_changes is called while the history in the file is short
TrackSnapshot ==
    /\ Len(read_detailed_history(detailed_log).changes) < MaxSnapshotEntries
    /\ TrackDetailed

NextSnapshot == EditTrackedSheet \/ TrackSnapshot

SpecSnapshot == InitSnapshot /\ [][NextSnapshot]_vars

-----------------------------------------------------------------------------
(* What the claims about the persisted snapshot speak of *)

\* the last call of track_detailed_changes returned its change_info
DetailedReturned == pc = "detailed" /\ "info" \in DOMAIN ret

ServiceColumns == {"_composite_key", "_row_key"}

\* the tracking file holds a snapshot
HasSnapshot == detailed_log # NoFile /\ ~detailed_log.last_data.none

\* the snapshot of the file as a frame
Snapshot ==
    [columns |-> detailed_log.last_data.columns,
     rows |-> detailed_log.last_data.rows]

\* the records of the sheet as the call loads and cleans them
LoadedRecords ==
    LET r == to_dict_records(detailed_current(sheet))
    IN  [columns |-> r.columns, rows |-> r.rows]

\* C21: after every call of track_detailed_changes that returns, the
\* snapshot in the tracking file is the data that call loaded, also when
\* the call reports has_changes = false.  The service columns are left
\* aside here: the snapshot without them is compared.
C21_SnapshotIsLastLoad ==
    DetailedReturned =>
        /\ HasSnapshot
        /\ without_columns(Snapshot, ServiceColumns) = LoadedRecords

\* C22: a call reports is_first_run = true only when no snapshot was ever
\* persisted, that is when there is no tracking file yet; after a snapshot
\* of a sheet without data rows the rows of the next load are reported as
\* added.
C22_FirstRunOnlyOnce ==
    [][(pc' = "detailed" /\ "info" \in DOMAIN ret' /\ ret'.info.is_first_run)
        => detailed_log = NoFile]_vars

\* C23: the snapshot persisted after a comparison has exactly the columns
\* of the loaded sheet and neither _composite_key nor _row_key.
C23_SnapshotHasSheetColumns ==
    (DetailedReturned /\ ~ret.info.is_first_run /\ ret.info.has_changes) =>
        /\ HasSnapshot
        /\ Snapshot.columns = LoadedRecords.columns
        /\ \A k \in 1..Len(Snapshot.columns) : Snapshot.columns[k] \notin ServiceColumns


-----------------------------------------------------------------------------
(* What the claims about the entries of a diff speak of *)

\* every entry is a record with a row_key and a data mapping
HaveKeyAndData(entries) ==
    \A k \in 1..Len(entries) : {"row_key", "data"} \subseteq DOMAIN entries[k]

\* C24: in every diff returned, also when one frame was empty, each entry
\* of added_rows and of deleted_rows has a row_key and a data mapping, and
\* export_changes_to_excel writes its sheets from the diff without error.
C24_EntriesHaveKeyAndData ==
    pc = "diffed" =>
        /\ HaveKeyAndData(changes.added_rows)
        /\ HaveKeyAndData(changes.deleted_rows)
        /\ export_changes_to_excel(changes).status = "ok"


\* the two cells are both missing or hold the same value
SameCell(a, b) == (IsMissing(a) /\ IsMissing(b)) \/ (~IsMissing(a) /\ ~IsMissing(b) /\ a = b)

\* the row of the new frame agrees with the row of the old frame in every
\* column of the old frame
Counterpart(old_row, new_row) ==
    \A c \in Cols(call.old) : SameCell(CellOf(old_row, c), CellOf(new_row, c))

\* C25: a diff of two non-empty frames has total_changes = 0 only if the
\* frames have the same number of rows and every row of the old frame has a
\* counterpart in the new frame that agrees with it in all columns of the
\* old frame, also when several rows share a composite key.
C25_NoChangeOnlyIfEqual ==
    (ComparedNonEmpty /\ changes.summary.total_changes = 0) =>
        /\ Len(call.old.rows) = Len(call.new.rows)
        /\ \A i \in 1..Len(call.old.rows) :
            \E j \in 1..Len(call.new.rows) :
                Counterpart(call.old.rows[i], call.new.rows[j])


-----------------------------------------------------------------------------
(* What the claim about the chain of the coarse history speaks of *)

\* C26: in the coarse history file written by calls made one after the
\* other from an absent file, last_hash is the current_hash of the last
\* entry, every entry has has_changes = true, the entry appended first (the
\* one of time 0) is the one whose previous_hash is null, and every entry
\* after the first of the list has as previous_hash the current_hash of the
\* entry before it.
C26_HistoryChain ==
    changes_log # NoFile =>
        LET entries == changes_log.changes
        IN  /\ entries # <<>>
            /\ changes_log.last_hash = entries[Len(entries)].current_hash
            /\ \A i \in 1..Len(entries) : entries[i].has_changes
            /\ (entries[1].previous_hash = None) <=> (entries[1].timestamp = 0)
            /\ \A i \in 2..Len(entries) :
                /\ entries[i].previous_hash = entries[i - 1].current_hash
                /\ entries[i].previous_hash # None

\* the history is full and its first entry went with the cap: the list
\* starts with an entry that names the hash of the evicted one, and the
\* call just made found nothing new
C26_Witness ==
    /\ changes_log # NoFile
    /\ Len(changes_log.changes) = 100
    /\ changes_log.changes[1].timestamp > 0
    /\ changes_log.changes[1].previous_hash # None
    /\ changes_log.changes[2].previous_hash = changes_log.changes[1].current_hash
    /\ pc = "coarse"
    /\ ~ret.info.has_changes


-----------------------------------------------------------------------------
(* app.py, modules/auth.py, modules/relations.py: the login session         *)

\* if key not in st.session_state: st.session_state[key] = value
setdefault(ss, key, value) ==
    IF key \in DOMAIN ss THEN ss
    ELSE [k \in (DOMAIN ss) \cup {key} |-> IF k = key THEN value ELSE ss[k]]

\* st.session_state[key] = value
assign(ss, key, value) ==
    [k \in (DOMAIN ss) \cup {key} |-> IF k = key THEN value ELSE ss[k]]

\* what authenticate returns or raises
AuthRaise(e) == [status |-> "error", error |-> e, value |-> FALSE]
AuthReturn(v) == [status |-> "ok", error |-> "", value |-> v]

\* authenticate that asks only whether the user is in the sheet
authenticate_known_user(values, username, password) ==
    IF values = <<>> THEN AuthRaise("ValueError: no data")
    ELSE LET frame == DataFrame(Tail(values), Head(values))
         IN  IF frame.status = "error" THEN AuthRaise(frame.error)
             ELSE IF "user" \notin Cols(frame) THEN AuthRaise("KeyError: user")
             ELSE AuthReturn(\E i \in 1..Len(frame.rows) : frame.rows[i]["user"] = username)

\* auth.py:16-46 once the API has answered with the grid values ([] when
\* the answer has no 'values')
authenticate(values, username, password) ==
    IF values = <<>> THEN AuthRaise("ValueError: no data")
    ELSE LET frame == DataFrame(Tail(values), Head(values))
         IN  IF frame.status = "error" THEN AuthRaise(frame.error)
             ELSE IF "user" \notin Cols(frame) THEN AuthRaise("KeyError: user")
             ELSE LET user_row == SelectSeq(frame.rows,
                                      LAMBDA row : row["user"] = username)
                  IN  IF user_row = <<>> THEN AuthReturn(FALSE)
                      ELSE IF "password" \notin Cols(frame)
                      THEN AuthRaise("KeyError: password")
                      ELSE AuthReturn(user_row[1]["password"] = password)

\* app.py:110-152: the defaults of logged_in and sidebar_state, then
\* toggle_sidebar
app_start(ss) ==
    LET s1 == setdefault(ss, "logged_in", FALSE)
        s2 == setdefault(s1, "sidebar_state", FALSE)
    IN  assign(s2, "sidebar_state", s2["logged_in"])

\* auth.py:53-63: the defaults show_auth_page sets before its button
auth_defaults(ss) ==
    LET s1 == setdefault(ss, "saved_username", EmptyStr)
        s2 == setdefault(s1, "saved_password", EmptyStr)
    IN  setdefault(s2, "auth_in_progress", FALSE)

\* auth.py:66: the login page with its button as the run rendered it
login_page(ss, message) ==
    [name |-> "login", button_disabled |-> ss["auth_in_progress"], message |-> message]

\* relations.py:70-125: the dashboard
dashboard_page == [name |-> "dashboard", button_disabled |-> FALSE, message |-> ""]

\* app.py:188-195 with relations.py:72-74: one run of the script in which
\* no button was clicked; the session state and the page it leaves
run_app(ss) ==
    LET s1 == app_start(ss)
    IN  IF s1["logged_in"]
        THEN [session_state |-> s1, page |-> dashboard_page]
        ELSE [session_state |-> auth_defaults(s1),
              page |-> login_page(auth_defaults(s1), "")]

-----------------------------------------------------------------------------
(* The session scenario: one browser session of the application *)

BOB == <<"b", "o", "b">>
EVE == <<"e", "v", "e">>
PW == <<"p", "w">>

Usernames == {BOB, EVE, EmptyStr}
Passwords == {PW, ROX, EmptyStr}

\* the answers of the API for the sheet of users: no values; a header
\* only; one user; a user entered twice with two passwords; two users; a
\* user whose password cell is empty, so that the row is short; a sheet
\* whose first column is not named user
UserGrids ==
    {<<>>,
     <<<<"user", "password">>>>,
     <<<<"user", "password">>, <<BOB, PW>>>>,
     <<<<"user", "password">>, <<BOB, PW>>, <<BOB, ROX>>>>,
     <<<<"user", "password">>, <<EVE, ROX>>, <<BOB, PW>>>>,
     <<<<"user", "password">>, <<EVE>>>>,
     <<<<"login", "password">>, <<BOB, PW>>>>}

InitSession ==
    /\ sheet \in UserGrids
    /\ now = 0
    /\ changes_log = NoFile
    /\ detailed_log = NoFile
    /\ ret = NoRet
    /\ local = NoLocal
    /\ df = NoTable
    /\ query = NoQuery
    /\ result = NoResult
    /\ old_df = NoTable
    /\ new_df = NoTable
    /\ changes = NoChanges
    /\ call = NoCall
    /\ AppIdle
    /\ pc = "new"

\* the browser opens the application anew: a new session without state
NewSession ==
    /\ page # NoPage
    /\ session_state' = NoSession
    /\ page' = NoPage
    /\ ret' = NoRet
    /\ pc' = "new"
    /\ UNCHANGED <<df, query, result, old_df, new_df, changes, call>>
    /\ UNCHANGED <<sheet, now, changes_log, detailed_log, local, mirror_cache>>

\* app.py: a run of the script without a click on a button (the first
\* run of the session, a text typed into a field, a section chosen)
RunApp ==
    /\ session_state' = run_app(session_state).session_state
    /\ page' = run_app(session_state).page
    /\ pc' = "run"
    /\ UNCHANGED <<df, query, result, old_df, new_df, changes, call>>
    /\ UNCHANGED <<sheet, now, changes_log, detailed_log, ret, local, mirror_cache>>

\* auth.py:66-78: the run after a click on the login button of the page
\* shown; the request to the API may fail; st.rerun() after a success
\* runs the script again at once
ClickLogin ==
    /\ page.name = "login"
    /\ ~page.button_disabled
    /\ \E username \in Usernames, password \in Passwords, api_fails \in BOOLEAN :
        LET s1 == auth_defaults(app_start(session_state))
            s2 == assign(s1, "auth_in_progress", TRUE)
            answer == IF api_fails THEN AuthRaise("HttpError")
                      ELSE authenticate(sheet, username, password)
        IN  /\ ret' = [kind |-> "authenticate", username |-> username,
                       password |-> password, status |-> answer.status,
                       error |-> answer.error, value |-> answer.value]
            /\ IF answer.status = "error"
               THEN /\ session_state' = s2
                    /\ page' = login_page(s1, "exception")
                    /\ pc' = "login_error"
               ELSE IF answer.value
               THEN LET s3 == assign(assign(assign(s2, "saved_username", username),
                                  "saved_password", password), "logged_in", TRUE)
                    IN  /\ session_state' = run_app(s3).session_state
                        /\ page' = run_app(s3).page
                        /\ pc' = "login_ok"
               ELSE /\ session_state' = assign(s2, "auth_in_progress", FALSE)
                    /\ page' = login_page(s1, "wrong")
                    /\ pc' = "login_failed"
    /\ UNCHANGED <<df, query, result, old_df, new_df, changes, call>>
    /\ UNCHANGED <<sheet, now, changes_log, detailed_log, local, mirror_cache>>

\* relations.py:114-117: the run after a click on the logout button of the
\* dashboard; st.rerun() runs the script again at once
ClickLogout ==
    /\ page.name = "dashboard"
    /\ LET s1 == app_start(session_state)
           s2 == assign(assign(s1, "logged_in", FALSE), "auth_in_progress", FALSE)
       IN  IF s1["logged_in"]
           THEN /\ session_state' = run_app(s2).session_state
                /\ page' = run_app(s2).page
                /\ pc' = "logout"
           ELSE /\ session_state' = run_app(session_state).session_state
                /\ page' = run_app(session_state).page
                /\ pc' = "run"
    /\ UNCHANGED <<df, query, result, old_df, new_df, changes, call>>
    /\ UNCHANGED <<sheet, now, changes_log, detailed_log, ret, local, mirror_cache>>

NextSession == NewSession \/ RunApp \/ ClickLogin \/ ClickLogout

SpecSession == InitSession /\ [][NextSession]_vars

-----------------------------------------------------------------------------
(* What the claims about the login session speak of *)

\* the flag of the session state, false while the key is not set
Flag(key) == key \in DOMAIN session_state /\ session_state[key]

\* C27: whenever the user is not logged in and no call of authenticate is
\* running, auth_in_progress is false and the login button of the page is
\* enabled: a login attempt that failed, by a false answer or by an error,
\* has reset it, and so has logout.
C27_ButtonEnabledWhenLoggedOut ==
    ~Flag("logged_in") =>
        /\ ~Flag("auth_in_progress")
        /\ ~page.button_disabled

\* the first data row of the sheet of users whose user cell is the name
\* has the password in its password cell
CredentialsMatch(username, password) ==
    /\ sheet # <<>>
    /\ Head(sheet) = <<"user", "password">>
    /\ \E i \in 2..Len(sheet) :
        /\ Len(sheet[i]) = 2
        /\ sheet[i][1] = username
        /\ sheet[i][2] = password
        /\ \A j \in 2..(i - 1) : sheet[j][1] # username

\* C28: the dashboard is rendered only while logged_in is true; logged_in
\* starts false, becomes true only in a login run whose entered username
\* and password are in the sheet of users, and a logout sets it to false
\* and leaves the login page.
C28_DashboardOnlyLoggedIn ==
    /\ [](page.name = "dashboard" => Flag("logged_in"))
    /\ [](pc = "new" => ~Flag("logged_in"))
    /\ [][(~Flag("logged_in") /\ Flag("logged_in")')
            => /\ pc' = "login_ok"
               /\ ret'.status = "ok" /\ ret'.value
               /\ CredentialsMatch(ret'.username, ret'.password)]_vars
    /\ [][pc' = "logout" => (~Flag("logged_in")' /\ page'.name = "login")]_vars

\* a user logged in with the second of two rows of the sheet and logged out
\* again
C28_Witness ==
    /\ pc = "logout"
    /\ page.name = "login"
    /\ ~Flag("logged_in")
    /\ session_state["saved_username"] = BOB
    /\ sheet[2][1] = EVE


-----------------------------------------------------------------------------
(* google_sheets.py: send_request                                            *)

\* google_sheets.py:202
mirror_cache_timeout == 3600

\* the most mirrors of a range that are probed
MaxMirrors == 3

\* google_sheets.py:171-186: some of the projects of link_project
link_project == [ROX |-> "roxcasino", Gizbo |-> "gizbocasino", Irwin |-> "irwincasino"]

\* google_sheets.py:218-228: the first mirror of the range of a domain
first_mirror(base_domain) ==
    CASE base_domain \in {"stardacasino", "monrocasino", "1gocasino"} -> 100
      [] base_domain = "gizbocasino" -> 788
      [] base_domain \in {"irwincasino", "flagmancasino"} -> 1
      [] OTHER -> 1000

\* google_sheets.py:228: the range of mirrors, cut to its first MaxMirrors
mirror_range(base_domain) ==
    first_mirror(base_domain)..(first_mirror(base_domain) + MaxMirrors - 1)

\* google_sheets.py:246-251: the dict of games a working mirror answers with
game_dict == [Book |-> "book"]

\* google_sheets.py:236-258: the mirrors are requested in the order given
\* until one answers; up is the set of mirrors that answer
probe(mirrors, up) ==
    LET working == {k \in 1..Len(mirrors) : mirrors[k] \in up}
    IN  IF working = {}
        THEN [found |-> FALSE, requests |-> Len(mirrors), result |-> <<>>]
        ELSE [found |-> TRUE,
              requests |-> CHOOSE k \in working : \A j \in working : k <= j,
              result |-> game_dict]

\* google_sheets.py:203-258: what the call returns and how many HTTP
\* requests it issues; cache is mirror_cache, which the call reads and
\* never writes
send_request(project, links, cache, current_time, mirrors, up) ==
    IF project \notin DOMAIN links
    THEN [found |-> FALSE, requests |-> 0, result |-> <<>>]
    ELSE IF /\ project \in DOMAIN cache
            /\ current_time - cache[project].cache_time < mirror_cache_timeout
    THEN [found |-> FALSE, requests |-> 0, result |-> cache[project].result]
    ELSE probe(mirrors, up)

-----------------------------------------------------------------------------
(* The probe scenario: send_request is called again and again while time   *)
(* passes                                                                   *)

\* the clock stops at this many seconds
MaxClock == 7200

\* the seconds that pass between two calls
ClockSteps == {1800, 3600}

ProbedProjects == {"ROX", "Irwin", "Unknown"}

InitProbe ==
    /\ sheet = <<>>
    /\ now = 0
    /\ changes_log = NoFile
    /\ detailed_log = NoFile
    /\ ret = NoRet
    /\ local = NoLocal
    /\ df = NoTable
    /\ query = NoQuery
    /\ result = NoResult
    /\ old_df = NoTable
    /\ new_df = NoTable
    /\ changes = NoChanges
    /\ call = NoCall
    /\ AppIdle
    /\ pc = "start"

\* time passes
Tick ==
    /\ now < MaxClock
    /\ \E d \in ClockSteps : now' = now + d
    /\ pc' = "tick"
    /\ UNCHANGED <<df, query, result, old_df, new_df, changes, call>>
    /\ UNCHANGED <<sheet, changes_log, detailed_log, ret, local>>
    /\ UNCHANGED appVars

\* google_sheets.py:187: send_request(project, link_project); random.shuffle
\* picks the order of the mirrors, the network decides which of them answer
SendRequest ==
    /\ \E project \in ProbedProjects :
        LET base_domain == IF project \in DOMAIN link_project
                           THEN link_project[project] ELSE ""
        IN  \E mirrors \in Orders(mirror_range(base_domain)),
               up \in SUBSET mirror_range(base_domain) :
                LET r == send_request(project, link_project, mirror_cache, now,
                                      mirrors, up)
                IN  ret' = [kind |-> "send_request", project |-> project,
                            time |-> now, found |-> r.found,
                            requests |-> r.requests, result |-> r.result]
    /\ mirror_cache' = mirror_cache
    /\ pc' = "probed"
    /\ UNCHANGED <<df, query, result, old_df, new_df, changes, call>>
    /\ UNCHANGED <<sheet, now, changes_log, detailed_log, local>>
    /\ UNCHANGED <<session_state, page>>

NextProbe == Tick \/ SendRequest

SpecProbe == InitProbe /\ [][NextProbe]_vars

-----------------------------------------------------------------------------
(* What the claim about the cache of send_request speaks of *)

\* C29: after a send_request for a project has found a working mirror, the
\* next send_request for the same project less than 3600 seconds later
\* returns the result of that call and issues no HTTP request.
C29_CachedWithinTimeout ==
    [][(/\ pc' = "probed"
        /\ ret.kind = "send_request"
        /\ ret.found
        /\ ret'.project = ret.project
        /\ ret'.time - ret.time < mirror_cache_timeout)
        => (ret'.requests = 0 /\ ret'.result = ret.result)]_vars


-----------------------------------------------------------------------------
(* The history scenario: the snapshot scenario, in which the detailed      *)
(* history is also read                                                     *)

\* the largest limit handed to get_changes_history
MaxLimit == 3

\* history_tracker.py:544: get_changes_history(tracking_file, limit)
GetChangesHistory ==
    /\ \E limit \in 0..MaxLimit :
        ret' = [kind |-> "history", limit |-> limit,
                entries |-> get_changes_history(detailed_log, limit)]
    /\ pc' = "history"
    /\ UNCHANGED <<df, query, result, old_df, new_df, changes, call>>
    /\ UNCHANGED <<sheet, now, changes_log, detailed_log, local>>
    /\ UNCHANGED appVars

NextHistory == EditTrackedSheet \/ TrackSnapshot \/ GetChangesHistory

SpecHistory == InitSnapshot /\ [][NextHistory]_vars

-----------------------------------------------------------------------------
(* What the claim about get_changes_history speaks of *)

\* C30: get_changes_history returns the last limit entries of the detailed
\* history in the order of the file, all of them when there are fewer, none
\* for limit = 0 and none when there is no file.
C30_AtMostLimitEntries ==
    pc = "history" =>
        LET persisted == PersistedChanges(detailed_log)
            n == IF ret.limit < Len(persisted) THEN ret.limit ELSE Len(persisted)
        IN  /\ Len(ret.entries) <= ret.limit
            /\ ret.entries = SubSeq(persisted, Len(persisted) - n + 1, Len(persisted))

====
